---- MODULE Spec2Model ----
(***************************************************************************)
(* The abstract-interpretation engine of the eBPF verifier (src/src/ai.cpp) *)
(* as a state machine: explicate_assertions, the Analyzer, the worklist     *)
(* driver, and the discharge sweep of analyze_rcp, over the Machine domain  *)
(* RegsDom x MemDom x MinSizeDom.                                           *)
(*                                                                         *)
(* ai.cpp includes ai_dom_set.hpp, ai_dom_rcp.hpp and ai_dom_mem.hpp, which *)
(* are not among the source files.  NumSet, RCP_domain and MemDom are       *)
(* therefore written from sections 3, 4.1, 4.2 and 4.3 of the written       *)
(* specification; everything else follows ai.cpp line by line.              *)
(*                                                                         *)
(* Numbers are mathematical integers: every value the bounded programs      *)
(* produce stays far inside 64 bits, so no operation here wraps.            *)
(***************************************************************************)
EXTENDS Integers, Sequences, FiniteSets, TLC

\* F(x) and F(x, y) with the arguments computed once, as C++ computes the
\* arguments of a call before the call.
Once1(F(_), x) == CHOOSE r \in {F(u) : u \in {a \in {x} : a = a}} : TRUE
Once2(F(_, _), x, y) ==
  CHOOSE r \in {F(u, v) : u \in {a \in {x} : a = a},
                          v \in {b \in {y} : b = b}} : TRUE

VARIABLE
  ndebug   \* whether the build defines NDEBUG, which compiles assert() out

\* ------------------------------------------------------------------ bounds
\* The most instructions (before assertions) a generated program holds.
MaxInsts == 2

\* ------------------------------------------------------- program constants
\* MinSizeDom's initial size, 0xFFFFFFF (ai.cpp:42).
SIZE_SENTINEL == 268435455
\* The stack size of an eBPF program.
STACK_SIZE == 512
\* Above this many elements a NumSet collapses to TOP.
K == 4
\* Slots of RegsDom::regs (ai.cpp:84).
NUM_SLOTS == 16

\* program_info of the analysed program: one map, and a context descriptor
\* whose data, end and meta fields sit at offsets 0, 4 and 8.
MapDefs == << [value_size |-> 8] >>
NumMaps == Len(MapDefs)
Descriptor == [data |-> 0, end |-> 4, meta |-> 8, size |-> 16]

\* ------------------------------------------------------------------- types
\* Type indices in the order of AssertionExtractor::type_indices: the maps,
\* then ctx, stack, packet (T_DATA), num, fd.
T_CTX == NumMaps
T_STACK == NumMaps + 1
T_PACKET == NumMaps + 2
T_NUM == NumMaps + 3
T_FD == NumMaps + 4
AllTypes == 0 .. (NumMaps + 4)
TypeIndices == [i \in 1 .. (NumMaps + 5) |-> i - 1]

TS_all == AllTypes
TS_maps == 0 .. (NumMaps - 1)
TS_num == {T_NUM}
TS_fd == {T_FD}
TS_ctx == {T_CTX}
TS_stack == {T_STACK}
TS_packet == {T_PACKET}
TS_ptr == AllTypes \ {T_NUM, T_FD}
TS_mem == TS_stack \cup TS_packet \cup TS_maps
TS_nonfd == AllTypes \ {T_FD}

\* ------------------------------------------------------ NumSet / OffsetSet
NSBot == [top |-> FALSE, elems |-> {}]
NSTop == [top |-> TRUE, elems |-> {}]
NSOf(S) == IF Cardinality(S) > K THEN NSTop ELSE [top |-> FALSE, elems |-> S]
NSSingle(v) == [top |-> FALSE, elems |-> {v}]
NSIsBot(a) == ~a.top /\ a.elems = {}
NSIsTop(a) == a.top
NSIsSingle(a) == ~a.top /\ Cardinality(a.elems) = 1
NSContains(a, v) == a.top \/ v \in a.elems

NSJoin(a, b) ==
  IF a.top \/ b.top THEN NSTop ELSE NSOf(a.elems \cup b.elems)

NSMeet(a, b) ==
  IF NSIsBot(a) \/ NSIsBot(b) THEN NSBot
  ELSE IF a.top THEN b
  ELSE IF b.top THEN a
  ELSE NSOf(a.elems \cap b.elems)

ArithOn(op, x, y) ==
  CASE op = "ADD" -> x + y
    [] op = "SUB" -> x - y
    [] op = "MUL" -> x * y
    [] op = "DIV" -> x \div y
    [] OTHER -> x

NSArith(op, a, b) ==
  IF NSIsBot(a) \/ NSIsBot(b) THEN NSBot
  ELSE IF a.top \/ b.top THEN NSTop
  ELSE IF op = "DIV" /\ 0 \in b.elems THEN NSTop
  ELSE NSOf({ArithOn(op, x, y) : x \in a.elems, y \in b.elems})

Rel(op, x, y) ==
  CASE op = "EQ" -> x = y
    [] op = "NE" -> x # y
    [] op = "LT" -> x < y
    [] op = "LE" -> x <= y
    [] op = "GT" -> x > y
    [] op = "GE" -> x >= y

\* The subset of a consistent with "a op b"; the left unchanged when either
\* side is TOP.
NSAssume(a, op, b) ==
  IF a.top \/ b.top THEN a
  ELSE [top |-> FALSE,
        elems |-> {x \in a.elems : \E y \in b.elems : Rel(op, x, y)}]

\* Every value of a is in the relation with every value of b.
NSSatisfied(a, op, b) ==
  IF NSIsBot(a) \/ NSIsBot(b) THEN TRUE
  ELSE IF a.top \/ b.top THEN FALSE
  ELSE \A x \in a.elems : \A y \in b.elems : Rel(op, x, y)

\* --------------------------------------------------------------- RCP_domain
\* c: one NumSet/OffsetSet per type index (num, ctx, stack, packet, fd and
\* each map); pe: the packet_end flag.
RcpBot == [c |-> [t \in AllTypes |-> NSBot], pe |-> FALSE]
With(r, t, ns) == [r EXCEPT !.c[t] = ns]
WithNum(r, ns) == With(r, T_NUM, ns)
WithCtx(r, o) == With(r, T_CTX, NSSingle(o))
WithStack(r, ns) == With(r, T_STACK, ns)
WithPacket(r, o) == With(r, T_PACKET, NSSingle(o))
WithFd(r, m) == With(r, T_FD, NSSingle(m))
WithPacketEnd(r) == [r EXCEPT !.pe = TRUE]
numtop == WithNum(RcpBot, NSTop)
RcpTop == [c |-> [t \in AllTypes |-> NSTop], pe |-> TRUE]

GetNum(r) == r.c[T_NUM]
GetCtx(r) == r.c[T_CTX]
GetStack(r) == r.c[T_STACK]
GetPacket(r) == r.c[T_PACKET]

RcpIsBot(r) == ~r.pe /\ \A t \in AllTypes : NSIsBot(r.c[t])
NonNum(r) == r.pe \/ \E t \in AllTypes \ {T_NUM} : ~NSIsBot(r.c[t])
MustBeNum(r) == ~NSIsBot(r.c[T_NUM]) /\ ~NonNum(r)
MaybePacket(r) == ~NSIsBot(r.c[T_PACKET])
MaybeMap(r) == \E t \in TS_maps : ~NSIsBot(r.c[t])
IsPacketEnd(r) == r.pe /\ \A t \in AllTypes : NSIsBot(r.c[t])
\* The types a value may have; packet_end is a pointer of the packet region.
TypesOf(r) ==
  {t \in AllTypes : ~NSIsBot(r.c[t])} \cup (IF r.pe THEN {T_PACKET} ELSE {})

RcpJoin(a, b) ==
  [c |-> [t \in AllTypes |-> NSJoin(a.c[t], b.c[t])], pe |-> a.pe \/ b.pe]
RcpMeet(a, b) ==
  [c |-> [t \in AllTypes |-> NSMeet(a.c[t], b.c[t])], pe |-> a.pe /\ b.pe]

\* zero(): every non-bot component replaced by {0}.
RcpZero(r) ==
  [c |-> [t \in AllTypes |-> IF NSIsBot(r.c[t]) THEN NSBot ELSE NSSingle(0)],
   pe |-> r.pe]

\* A combination that is neither num with num nor pointer with num.
OtherCombination(a, b) ==
  \/ NonNum(a) /\ NonNum(b)
  \/ (a.pe \/ ~NSIsBot(a.c[T_FD])) /\ ~RcpIsBot(b)
  \/ (b.pe \/ ~NSIsBot(b.c[T_FD])) /\ ~RcpIsBot(a)

\* operator+: pointer + num adjusts the offset; anything else is num-TOP.
RcpAdd(a, b) ==
  LET n == NSArith("ADD", a.c[T_NUM], b.c[T_NUM])
  IN [c |-> [t \in AllTypes |->
               IF t = T_NUM
                 THEN IF OtherCombination(a, b) THEN NSTop ELSE n
               ELSE IF t = T_FD THEN NSBot
               ELSE NSJoin(NSArith("ADD", a.c[t], b.c[T_NUM]),
                           NSArith("ADD", a.c[T_NUM], b.c[t]))],
      pe |-> FALSE]

\* A pointer of one region minus a value that is neither a num nor a pointer
\* of the same region, or a num minus a pointer.
OtherDifference(a, b) ==
  \/ a.pe \/ b.pe \/ ~NSIsBot(a.c[T_FD]) \/ ~NSIsBot(b.c[T_FD])
  \/ ~NSIsBot(a.c[T_NUM]) /\ NonNum(b)
  \/ \E s, t \in TS_ptr : s # t /\ ~NSIsBot(a.c[s]) /\ ~NSIsBot(b.c[t])

\* The join of the NumSets f[t], t in S.
JoinOver(f, S) ==
  IF \E t \in S : f[t].top THEN NSTop
  ELSE NSOf(UNION {f[t].elems : t \in S})

\* operator-: pointer - num adjusts the offset, pointer - pointer of the same
\* region is the num difference of the offsets; anything else is num-TOP.
RcpSub(a, b) ==
  LET diffs == [t \in AllTypes |->
                  IF t = T_FD THEN NSBot
                  ELSE NSArith("SUB", a.c[t], b.c[t])]
      n == JoinOver(diffs, AllTypes)
  IN [c |-> [t \in AllTypes |->
               IF t = T_NUM
                 THEN IF OtherDifference(a, b) THEN NSTop ELSE n
               ELSE IF t = T_FD THEN NSBot
               ELSE NSArith("SUB", a.c[t], b.c[T_NUM])],
      pe |-> FALSE]

\* exec(op, v): the other operations go through num only.
RcpExec(op, a, b) ==
  IF RcpIsBot(a) \/ RcpIsBot(b) THEN RcpBot
  ELSE IF NonNum(a) \/ NonNum(b) THEN numtop
  ELSE WithNum(RcpBot, NSArith(op, a.c[T_NUM], b.c[T_NUM]))

\* Only the components of the types in ts are kept.
RcpRestrict(r, ts) ==
  [c |-> [t \in AllTypes |-> IF t \in ts THEN r.c[t] ELSE NSBot],
   pe |-> r.pe /\ T_PACKET \in ts]

\* assume(left, op, right, when_types): sharpen the components of left whose
\* type is in when_types; a component the right side lacks is contradictory
\* for every operation but EQ and eliminated.
RcpAssume(left, op, right, when) ==
  [c |-> [t \in AllTypes |->
            IF t \notin when \/ NSIsBot(left.c[t]) THEN left.c[t]
            ELSE IF NSIsBot(right.c[t])
              THEN IF op = "EQ" THEN left.c[t] ELSE NSBot
            ELSE NSAssume(left.c[t], op, right.c[t])],
   pe |-> left.pe]

\* satisfied(left, op, right, when_types)
RcpSatisfied(left, op, right, when) ==
  \A t \in when : NSSatisfied(left.c[t], op, right.c[t])

\* assume(r, t) and assume(r, t, given, given_types)
RcpAssumeTypes(r, ts) == RcpRestrict(r, ts)
RcpAssumeTypesGiven(r, ts, given, gts) ==
  IF TypesOf(given) # {} /\ TypesOf(given) \subseteq gts
    THEN RcpRestrict(r, ts) ELSE r

\* satisfied(r, t) and satisfied(r, t, given, given_types)
RcpSatisfiedTypes(r, ts) == TypesOf(r) \subseteq ts
RcpSatisfiedTypesGiven(r, ts, given, gts) ==
  (TypesOf(given) \cap gts # {}) => (TypesOf(r) \subseteq ts)

\* map_lookup_elem(map_defs): the value pointer at offset 0 of every map the
\* fd may name, or num 0 (the null result).
MapLookupElem(r) ==
  [c |-> [t \in AllTypes |->
            IF t = T_NUM THEN NSSingle(0)
            ELSE IF t \in TS_maps /\ NSContains(r.c[T_FD], t) THEN NSSingle(0)
            ELSE NSBot],
   pe |-> FALSE]

\* ------------------------------------------------------------ MemDom (stack)
\* cells: a sparse store keyed by <<offset, width>>; bot: no stack at all.
MemBot == [bot |-> TRUE, cells |-> << >>]
CellOverlaps(k, o, w) == k[1] < o + w /\ o < k[1] + k[2]
CellCovered(k, o, w) == o <= k[1] /\ k[1] + k[2] <= o + w

\* store(offset, width, value): a strong update if the offset is single (the
\* cells the write covers are overwritten, the cells it partly overlaps are
\* joined with the value), else a weak update of every cell a possible target
\* overlaps.
MemStore(m, offs, width, value) ==
  IF m.bot THEN m
  ELSE IF NSIsSingle(offs)
    THEN LET o == CHOOSE x \in offs.elems : TRUE
             keep == {k \in DOMAIN m.cells : ~CellCovered(k, o, width)}
         IN [m EXCEPT !.cells =
               [k \in keep \cup {<<o, width>>} |->
                  IF k = <<o, width>> THEN value
                  ELSE IF CellOverlaps(k, o, width)
                    THEN RcpJoin(m.cells[k], value)
                  ELSE m.cells[k]]]
  ELSE [m EXCEPT !.cells =
          [k \in DOMAIN m.cells |->
             IF offs.top \/ \E o \in offs.elems : CellOverlaps(k, o, width)
               THEN RcpJoin(m.cells[k], value)
             ELSE m.cells[k]]]

\* store_dynamic(offsets, widths, value): a weak update over every possible
\* offset and width.
MemStoreDynamic(m, offs, widths, value) ==
  IF m.bot THEN m
  ELSE [m EXCEPT !.cells =
          [k \in DOMAIN m.cells |->
             IF \/ offs.top
                \/ widths.top /\ \E o \in offs.elems : o < k[1] + k[2]
                \/ \E o \in offs.elems : \E w \in widths.elems :
                     CellOverlaps(k, o, w)
               THEN RcpJoin(m.cells[k], value)
             ELSE m.cells[k]]]

\* A read at one offset: the cell itself, num-TOP if only other cells overlap
\* the range, else BOT.
MemLoadAt(m, o, width) ==
  IF <<o, width>> \in DOMAIN m.cells THEN m.cells[<<o, width>>]
  ELSE IF \E k \in DOMAIN m.cells : CellOverlaps(k, o, width) THEN numtop
  ELSE RcpBot

\* The join of a finite set of RCP values.
RcpJoinAll(S) ==
  [c |-> [t \in AllTypes |->
            IF \E r \in S : r.c[t].top THEN NSTop
            ELSE NSOf(UNION {r.c[t].elems : r \in S})],
   pe |-> \E r \in S : r.pe]

\* load(offsets, width): the join of the candidates.
MemLoad(m, offs, width) ==
  IF m.bot THEN RcpBot
  ELSE IF offs.top
    THEN RcpJoinAll({IF k[2] = width THEN m.cells[k] ELSE numtop :
                       k \in DOMAIN m.cells})
  ELSE RcpJoinAll({MemLoadAt(m, o, width) : o \in offs.elems})

MemJoin(a, b) ==
  IF a.bot THEN b
  ELSE IF b.bot THEN a
  ELSE [bot |-> FALSE,
        cells |-> [k \in DOMAIN a.cells \cup DOMAIN b.cells |->
                     IF k \notin DOMAIN b.cells THEN a.cells[k]
                     ELSE IF k \notin DOMAIN a.cells THEN b.cells[k]
                     ELSE RcpJoin(a.cells[k], b.cells[k])]]

\* -------------------------------------------------------------- MinSizeDom
MinSizeJoin(a, b) == IF a < b THEN a ELSE b
MinSizeMeet(a, b) == IF a > b THEN a ELSE b
MinSizeHavoc == 0
Max2(a, b) == IF a > b THEN a ELSE b
SetMin(S) == CHOOSE x \in S : \A y \in S : x <= y
SetMax(S) == CHOOSE x \in S : \A y \in S : x >= y

\* What *std::min_element(begin, end) can read when the set is TOP and holds
\* no element: the end iterator is dereferenced, which is undefined; the read
\* yields some value or the process dies.
GarbageValues == {0, SIZE_SENTINEL + 1}

\* assume_larger_than(ub): the sizes it can leave ("crash": the process died).
\* For TOP the size is set to the sentinel and, with no return, the minimum
\* of the empty element list is taken.
AssumeLargerThan(size, ub) ==
  IF NSIsBot(ub) THEN {[crash |-> FALSE, size |-> size]}
  ELSE IF NSIsTop(ub)
    THEN {[crash |-> TRUE, size |-> size]}
         \cup {[crash |-> FALSE, size |-> Max2(SIZE_SENTINEL, g)] :
                 g \in GarbageValues}
  ELSE {[crash |-> FALSE, size |-> Max2(size, SetMin(ub.elems))]}

\* in_bounds(ub)
InBounds(size, ub) ==
  IF NSIsBot(ub) THEN TRUE
  ELSE IF NSIsTop(ub) THEN FALSE
  ELSE size >= SetMax(ub.elems)

\* ----------------------------------------------------------------- RegsDom
Regs == 0 .. (NUM_SLOTS - 1)
DATA_END_REG == 13
META_REG == 14
Absent == [present |-> FALSE, v |-> RcpBot]
Some(v) == [present |-> TRUE, v |-> v]

\* RegsDom(): every slot holds the default (bottom) value.
RegsDefault == [i \in Regs |-> Some(RcpBot)]

\* init(ctx, stack_end, top_num)
RegsInit(ctx, stack_end, top_num) ==
  [i \in Regs |->
     IF i = 1 THEN Some(ctx)
     ELSE IF i = 10 THEN Some(stack_end)
     ELSE IF i \in {DATA_END_REG, META_REG} THEN Some(top_num)
     ELSE Absent]

\* A join that would keep the left operand's slot when only the right one
\* is absent.
RegsJoinLeftBiased(a, b) ==
  [i \in Regs |->
     IF ~a[i].present THEN Absent
     ELSE IF ~b[i].present THEN a[i]
     ELSE Some(RcpJoin(a[i].v, b[i].v))]

RegsJoin(a, b) ==
  [i \in Regs |->
     IF ~a[i].present \/ ~b[i].present THEN Absent
     ELSE Some(RcpJoin(a[i].v, b[i].v))]

RegsMeet(a, b) ==
  [i \in Regs |->
     IF ~a[i].present \/ ~b[i].present THEN Absent
     ELSE Some(RcpMeet(a[i].v, b[i].v))]

\* A scratch_regs whose loop would run one register too far.
ScratchRegsThroughR6(regs) ==
  [i \in Regs |-> IF i \in 1 .. 6 THEN Absent ELSE regs[i]]

ScratchRegs(regs) == [i \in Regs |-> IF i \in 1 .. 5 THEN Absent ELSE regs[i]]
Assign(regs, r, v) == [regs EXCEPT ![r] = Some(v)]

\* ------------------------------------------------------------- instructions
\* Value: an immediate or a register.
Imm(n) == [imm |-> TRUE, v |-> n]
Reg(r) == [imm |-> FALSE, v |-> r]
Cond(op, left, right) == [op |-> op, left |-> left, right |-> right]
NoCond == Cond("NONE", 0, Imm(0))
Access(basereg, offset, width) ==
  [basereg |-> basereg, offset |-> offset, width |-> width]

Undefined == [kind |-> "Undefined"]
LoadMapFd(dst, mapfd) == [kind |-> "LoadMapFd", dst |-> dst, mapfd |-> mapfd]
Un(dst) == [kind |-> "Un", dst |-> dst]
Bin(op, dst, v) == [kind |-> "Bin", op |-> op, dst |-> dst, v |-> v]
Assume(cond) == [kind |-> "Assume", cond |-> cond]
Exit == [kind |-> "Exit"]
Jmp(cond) == [kind |-> "Jmp", cond |-> cond]
Call(singles, pairs, returns_map) ==
  [kind |-> "Call", singles |-> singles, pairs |-> pairs,
   returns_map |-> returns_map]
Packet == [kind |-> "Packet"]
Mem(access, value, is_load) ==
  [kind |-> "Mem", access |-> access, value |-> value, is_load |-> is_load]
LockAdd(access, valreg) ==
  [kind |-> "LockAdd", access |-> access, valreg |-> valreg]
ArgSingle(kind, reg) == [kind |-> kind, reg |-> reg]
ArgPair(kind, mem, size, can_be_zero) ==
  [kind |-> kind, mem |-> mem, size |-> size, can_be_zero |-> can_be_zero]

\* Assertions: LinearConstraint{op, reg, offset, width, v, when_types},
\* TypeConstraint{then, given} and InPacket{reg, offset, width}.
LinearConstraint(op, reg, offset, width, v, when) ==
  [ck |-> "Linear", op |-> op, reg |-> reg, offset |-> offset,
   width |-> width, v |-> v, when |-> when]
RT(reg, types) == [reg |-> reg, types |-> types]
TypeConstraint(then) ==
  [ck |-> "Type", then |-> then, has_given |-> FALSE, given |-> RT(0, {})]
TypeConstraintGiven(then, given) ==
  [ck |-> "Type", then |-> then, has_given |-> TRUE, given |-> given]
InPacket(reg, offset, width) ==
  [ck |-> "InPacket", reg |-> reg, offset |-> offset, width |-> width]
\* Assert{p}: an assertion and its satisfied flag, false when made.
AssertOf(cst) == [kind |-> "Assert", cst |-> cst, satisfied |-> FALSE]
IsAssert(ins) == ins.kind = "Assert"

\* ----------------------------------------------------------------- Machine
MachineDefault ==
  [regs |-> RegsDefault, stack_arr |-> MemBot, data_end |-> SIZE_SENTINEL]

\* Machine::init
\* An init() that would also havoc the validated packet size.
MachineInitHavocsSize(m) ==
  [m EXCEPT
     !.regs = RegsInit(WithCtx(RcpBot, 0),
                       WithStack(RcpBot, NSSingle(STACK_SIZE)), numtop),
     !.stack_arr = [m.stack_arr EXCEPT !.bot = FALSE],
     !.data_end = MinSizeHavoc]

MachineInit(m) ==
  [m EXCEPT
     !.regs = RegsInit(WithCtx(RcpBot, 0),
                       WithStack(RcpBot, NSSingle(STACK_SIZE)), numtop),
     !.stack_arr = [m.stack_arr EXCEPT !.bot = FALSE]]

MachineJoin(a, b) ==
  [regs |-> RegsJoin(a.regs, b.regs),
   stack_arr |-> MemJoin(a.stack_arr, b.stack_arr),
   data_end |-> MinSizeJoin(a.data_end, b.data_end)]

\* at(r) of a present slot, and eval(Value)
At(m, r) == m.regs[r].v
Eval(m, v) == IF v.imm THEN WithNum(RcpBot, NSSingle(v.v)) ELSE At(m, v.v)
EvalNum(n) == WithNum(RcpBot, NSSingle(n))
EvalReads(v) == IF v.imm THEN {} ELSE {v.v}

\* A store that would take every write for a weak one over all offsets.
StoreAlwaysWeak(m, addr, width, value) ==
  IF NSIsBot(GetStack(addr)) THEN m
  ELSE [m EXCEPT !.stack_arr =
          MemStoreDynamic(m.stack_arr, NSTop, width, value)]

\* A store that would aim at the stack offsets of the address whatever its
\* other components.
StoreAtStackOffsets(m, addr, width, value) ==
  IF NSIsBot(GetStack(addr)) THEN m
  ELSE IF ~NSIsSingle(width)
    THEN [m EXCEPT !.stack_arr =
            MemStoreDynamic(m.stack_arr, GetStack(addr), width, value)]
  ELSE [m EXCEPT !.stack_arr =
          MemStore(m.stack_arr, GetStack(addr),
                   CHOOSE w \in width.elems : TRUE, value)]

\* Machine::store
Store(m, addr, width, value) ==
  LET as_stack == GetStack(addr)
      target == IF RcpIsBot(WithStack(addr, NSBot)) THEN as_stack ELSE NSTop
  IN IF NSIsBot(as_stack) THEN m
     ELSE IF ~NSIsSingle(width)
       THEN [m EXCEPT !.stack_arr =
               MemStoreDynamic(m.stack_arr, target, width, value)]
     ELSE [m EXCEPT !.stack_arr =
             MemStore(m.stack_arr, target,
                      CHOOSE w \in width.elems : TRUE, value)]

LoadStack(m, as_stack, width) ==
  IF NSIsBot(as_stack) THEN RcpBot
  ELSE Once2(RcpJoin, RcpBot, MemLoad(m.stack_arr, as_stack, width))

LoadCtx(as_ctx, width) ==
  LET d == Descriptor
      data_start == WithPacket(RcpBot, 3)
  IN IF NSIsBot(as_ctx) THEN RcpBot
     ELSE IF NSIsSingle(as_ctx)
       THEN IF d.data > -1 /\ NSContains(as_ctx, d.data) THEN data_start
            ELSE IF d.end > -1 /\ NSContains(as_ctx, d.end)
              THEN WithPacketEnd(RcpBot)
            ELSE IF d.meta > -1 /\ NSContains(as_ctx, d.meta)
              THEN RcpAdd(data_start, WithPacket(RcpBot, 0))
            ELSE numtop
     ELSE RcpTop

LoadOther(addr) ==
  IF MaybePacket(addr) \/ MaybeMap(addr) THEN numtop ELSE RcpBot

Load(m, addr, width) ==
  Once2(RcpJoin,
        Once2(RcpJoin, LoadStack(m, GetStack(addr), width),
              LoadCtx(GetCtx(addr), width)),
        LoadOther(addr))

\* ------------------------------------------------------ transfer functions
\* The outcome of one visit: the new Machine ("ok"), the runtime_error of
\* RegsDom::at ("throw", the Machine as it was), or the end of the process
\* ("abort": a failed assert(), or a crash of undefined behaviour).
Ok(m) == [st |-> "ok", m |-> m]
\* A RegsDom::at that would hand back the slot without looking at it.
ThrowSwallowed(m) == [st |-> "ok", m |-> m]
Throw(m) == [st |-> "throw", m |-> m]
Abort(m) == [st |-> "abort", m |-> m]

\* The registers a constraint reads through regs.at (ai.cpp:244-262, 268-285).
CstReads(cst) ==
  CASE cst.ck = "Linear" ->
         {cst.reg} \cup EvalReads(cst.v) \cup EvalReads(cst.width)
    [] cst.ck = "Type" ->
         {cst.then.reg} \cup (IF cst.has_given THEN {cst.given.reg} ELSE {})
    [] cst.ck = "InPacket" -> {cst.reg} \cup EvalReads(cst.width)

\* The registers the memory arguments of a Call read (ai.cpp:303-318).
PairReads(m, arg) ==
  IF arg.kind = "PTR_TO_MEM_OR_NULL"
    THEN {arg.mem} \cup
         (IF m.regs[arg.mem].present /\ MustBeNum(At(m, arg.mem))
            THEN {} ELSE {arg.size})
  ELSE {arg.mem, arg.size}

\* The registers whose slots the transfer of ins reads through regs.at,
\* following the control flow of each operator()(...) of Machine.
Reads(ins, m) ==
  CASE ins.kind = "Bin" ->
         (IF ins.op = "MOV" THEN {} ELSE {ins.dst}) \cup EvalReads(ins.v)
    [] ins.kind = "Assume" ->
         EvalReads(ins.cond.right) \cup
         (IF \A r \in EvalReads(ins.cond.right) : m.regs[r].present
            THEN IF IsPacketEnd(Eval(m, ins.cond.right))
                   THEN (IF ins.cond.op = "LE" THEN {ins.cond.left} ELSE {})
                 ELSE {ins.cond.left}
          ELSE {})
    [] ins.kind = "Assert" -> CstReads(ins.cst)
    [] ins.kind = "Call" ->
         UNION {PairReads(m, ins.pairs[i]) : i \in DOMAIN ins.pairs}
         \cup (IF ins.returns_map THEN {1} ELSE {})
    [] ins.kind = "Mem" ->
         {ins.access.basereg} \cup
         (IF ins.is_load THEN {} ELSE EvalReads(ins.value))
    [] OTHER -> {}

\* The right-hand side a LinearConstraint compares its register with.
LinearRight(m, lc) ==
  Once2(RcpAdd, RcpZero(At(m, lc.reg)),
        Once2(RcpSub, RcpSub(Eval(m, lc.v), Eval(m, lc.width)),
              EvalNum(lc.offset)))

\* The upper bound of an InPacket access.
InPacketUb(m, ip) ==
  GetPacket(Once2(RcpAdd, RcpAdd(At(m, ip.reg), EvalNum(ip.offset)),
                  Eval(m, ip.width)))

\* With(data_end) for every size assume_larger_than can leave.
LargerThanOutcomes(m, ub) ==
  {IF o.crash THEN Abort(m) ELSE Ok([m EXCEPT !.data_end = o.size]) :
     o \in AssumeLargerThan(m.data_end, ub)}

\* operator()(Bin)
VisitBin(m, a) ==
  CASE a.op = "MOV" ->
         [m EXCEPT !.regs = Assign(m.regs, a.dst, Eval(m, a.v))]
    [] a.op = "ADD" ->
         [m EXCEPT !.regs =
            Assign(m.regs, a.dst, RcpAdd(At(m, a.dst), Eval(m, a.v)))]
    [] a.op = "SUB" ->
         [m EXCEPT !.regs =
            Assign(m.regs, a.dst, RcpSub(At(m, a.dst), Eval(m, a.v)))]
    [] OTHER ->
         [m EXCEPT !.regs =
            Assign(m.regs, a.dst, RcpExec(a.op, At(m, a.dst), Eval(m, a.v)))]

\* operator()(Assume)
VisitAssume(m, a) ==
  IF IsPacketEnd(Eval(m, a.cond.right))
    THEN IF a.cond.op = "LE"
           THEN LargerThanOutcomes(m, GetPacket(At(m, a.cond.left)))
         ELSE {Ok(m)}
  ELSE {Ok([m EXCEPT !.regs =
              Assign(m.regs, a.cond.left,
                     RcpAssume(At(m, a.cond.left), a.cond.op,
                               Eval(m, a.cond.right), TS_all))])}

\* operator()(Assert): the assertion is treated as an assume.
VisitAssert(m, a) ==
  LET cst == a.cst
  IN CASE cst.ck = "Linear" ->
            IF cst.when \cap TS_num # {} /\ cst.when \cap TS_ptr # {} /\ ~ndebug
              THEN {Abort(m)}
            ELSE {Ok([m EXCEPT !.regs =
                        Assign(m.regs, cst.reg,
                               Once2(LAMBDA l, r :
                                       RcpAssume(l, cst.op, r, cst.when),
                                     At(m, cst.reg), LinearRight(m, cst)))])}
       [] cst.ck = "Type" ->
            {Ok([m EXCEPT !.regs =
                   Assign(m.regs, cst.then.reg,
                          IF cst.has_given
                            THEN RcpAssumeTypesGiven(
                                   At(m, cst.then.reg), cst.then.types,
                                   At(m, cst.given.reg), cst.given.types)
                          ELSE RcpAssumeTypes(At(m, cst.then.reg),
                                              cst.then.types))])}
       [] cst.ck = "InPacket" -> LargerThanOutcomes(m, InPacketUb(m, cst))

\* Machine::satisfied
Satisfied(m, a) ==
  LET cst == a.cst
  IN CASE cst.ck = "Linear" ->
            Once2(LAMBDA l, r : RcpSatisfied(l, cst.op, r, cst.when),
                  At(m, cst.reg), LinearRight(m, cst))
       [] cst.ck = "Type" ->
            IF cst.has_given
              THEN RcpSatisfiedTypesGiven(At(m, cst.then.reg), cst.then.types,
                                          At(m, cst.given.reg), cst.given.types)
            ELSE RcpSatisfiedTypes(At(m, cst.then.reg), cst.then.types)
       [] cst.ck = "InPacket" -> InBounds(m.data_end, InPacketUb(m, cst))

\* One memory argument of a Call (the body of the loop at ai.cpp:303).
VisitPair(m, arg) ==
  LET mem == At(m, arg.mem)
      val == IF arg.kind = "PTR_TO_MEM_OR_NULL" /\ ~NSIsBot(GetNum(mem))
               THEN RcpTop ELSE numtop
  IN IF arg.kind = "PTR_TO_MEM_OR_NULL" /\ MustBeNum(mem) THEN m
     ELSE Store(m, mem, GetNum(At(m, arg.size)), val)

RECURSIVE VisitPairs(_, _)
VisitPairs(m, pairs) ==
  IF pairs = << >> THEN m
  ELSE VisitPairs(VisitPair(m, Head(pairs)), Tail(pairs))

\* A Call that would ignore returns_map.
VisitCallNumOnly(m, call) ==
  LET m1 == VisitPairs(m, call.pairs)
  IN [m1 EXCEPT !.regs = ScratchRegs(Assign(m1.regs, 0, numtop))]

\* operator()(Call)
VisitCall(m, call) ==
  LET m1 == VisitPairs(m, call.pairs)
      r0 == IF call.returns_map THEN MapLookupElem(At(m1, 1)) ELSE numtop
  IN [m1 EXCEPT !.regs = ScratchRegs(Assign(m1.regs, 0, r0))]

\* operator()(Packet)
VisitPacket(m) == [m EXCEPT !.regs = ScratchRegs(Assign(m.regs, 0, numtop))]

\* operator()(Mem)
VisitMem(m, a) ==
  LET OnAddr(addr) ==
        IF a.is_load
          THEN [m EXCEPT !.regs =
                  Assign(m.regs, a.value.v, Load(m, addr, a.access.width))]
        ELSE Store(m, addr, NSSingle(a.access.width), Eval(m, a.value))
  IN Once1(OnAddr, RcpAdd(At(m, a.access.basereg), EvalNum(a.access.offset)))

\* A failed assert(): the process aborts, or, in a build with NDEBUG, nothing
\* happens and m goes on.
FailedAssert(m) == IF ndebug THEN {Ok(m)} ELSE {Abort(m)}

\* Machine::visit: every outcome the visit of ins from m can have.
\* operator()(Undefined) is assert(false).
Visit(m, ins) ==
  IF /\ ins.kind = "Assert" /\ ins.cst.ck = "Linear" /\ ~ndebug
     /\ ins.cst.when \cap TS_num # {} /\ ins.cst.when \cap TS_ptr # {}
    THEN {Abort(m)}
  ELSE IF \E r \in Reads(ins, m) : ~m.regs[r].present THEN {Throw(m)}
  ELSE CASE ins.kind = "Undefined" -> FailedAssert(m)
         [] ins.kind = "LoadMapFd" ->
              {Ok([m EXCEPT !.regs =
                     Assign(m.regs, ins.dst, WithFd(RcpBot, ins.mapfd))])}
         [] ins.kind = "Bin" -> {Ok(VisitBin(m, ins))}
         [] ins.kind = "Assume" -> VisitAssume(m, ins)
         [] ins.kind = "Assert" -> VisitAssert(m, ins)
         [] ins.kind = "Call" -> {Ok(VisitCall(m, ins))}
         [] ins.kind = "Packet" -> {Ok(VisitPacket(m))}
         [] ins.kind = "Mem" -> {Ok(VisitMem(m, ins))}
         [] OTHER -> {Ok(m)}

\* ------------------------------------------------------ AssertionExtractor
\* An extractor running in privileged mode.
is_priviledged_on == TRUE

\* The member is_priviledged, never set (ai.cpp:509).
is_priviledged == FALSE

type_of(r, t) == TypeConstraint(RT(r, t))

\* An upper bound that would use STACK_SIZE for every region.
AccessUpperStackSized(i, reg, offset, width) ==
  IF i = T_PACKET THEN InPacket(reg, offset, width)
  ELSE LinearConstraint("LE", reg, offset, width, Imm(STACK_SIZE), {i})

\* The upper bound check_access emits for type index i (never num; fd is
\* never among the types its callers pass).
AccessUpper(i, reg, offset, width) ==
  IF i = T_PACKET THEN InPacket(reg, offset, width)
  ELSE LinearConstraint("LE", reg, offset, width,
         IF i < Len(MapDefs) THEN Imm(MapDefs[i + 1].value_size)
         ELSE IF i = T_STACK THEN Imm(STACK_SIZE)
         ELSE Imm(Descriptor.size),
         {i})

RECURSIVE AccessUppers(_, _, _, _, _)
\* The loop over type_indices of check_access, from position j on.
AccessUppers(j, t, reg, offset, width) ==
  IF j > Len(TypeIndices) THEN << >>
  ELSE LET i == TypeIndices[j]
           rest == AccessUppers(j + 1, t, reg, offset, width)
       IN IF i \notin t \/ i = T_NUM \/ i = T_FD THEN rest
          ELSE <<AccessUpper(i, reg, offset, width)>> \o rest

check_access(t, reg, offset, width) ==
  <<LinearConstraint("GE", reg, offset, Imm(0), Imm(0), t)>>
  \o AccessUppers(1, t, reg, offset, width)

RECURSIVE same_type_from(_, _, _, _)
same_type_from(j, ts, r1, r2) ==
  IF j > Len(TypeIndices) THEN << >>
  ELSE LET i == TypeIndices[j]
           rest == same_type_from(j + 1, ts, r1, r2)
       IN IF i \in ts
            THEN <<TypeConstraintGiven(RT(r1, {i}), RT(r2, {i}))>> \o rest
          ELSE rest

same_type(ts, r1, r2) == same_type_from(1, ts, r1, r2)

\* operator()(Call), the single arguments
ExtractSingle(arg) ==
  CASE arg.kind = "ANYTHING" ->
         IF ~is_priviledged THEN <<type_of(arg.reg, TS_num)>> ELSE << >>
    [] arg.kind = "MAP_FD" -> <<type_of(arg.reg, TS_fd)>>
    [] arg.kind = "PTR_TO_MAP_KEY" ->
         <<type_of(arg.reg, TS_stack \cup TS_packet)>>
    [] arg.kind = "PTR_TO_MAP_VALUE" ->
         <<type_of(arg.reg, TS_stack \cup TS_packet)>>
    [] arg.kind = "PTR_TO_CTX" -> <<type_of(arg.reg, TS_ctx)>>

RECURSIVE ExtractSingles(_)
ExtractSingles(singles) ==
  IF singles = << >> THEN << >>
  ELSE ExtractSingle(Head(singles)) \o ExtractSingles(Tail(singles))

\* operator()(Call), one memory argument (the body of the loop at ai.cpp:591)
ExtractPair(arg) ==
  (IF arg.kind = "PTR_TO_MEM_OR_NULL"
     THEN <<type_of(arg.mem, TS_mem \cup TS_num),
            LinearConstraint("EQ", arg.mem, 0, Imm(0), Imm(0), TS_num)>>
   ELSE <<type_of(arg.mem, TS_mem)>>)
  \o <<type_of(arg.size, TS_num),
       LinearConstraint(IF arg.can_be_zero THEN "GE" ELSE "GT",
                        arg.size, 0, Imm(0), Imm(0), TS_num)>>
  \o check_access(TS_mem, arg.mem, 0, Reg(arg.size))

\* The loop over call.pairs ends in a break: only the first pair is seen.
ExtractPairs(pairs) ==
  IF pairs = << >> THEN << >> ELSE ExtractPair(Head(pairs))

ExtractCall(call) == ExtractSingles(call.singles) \o ExtractPairs(call.pairs)

\* explicate(cond)
explicate(cond) ==
  IF is_priviledged THEN << >>
  ELSE IF cond.right.imm
    THEN IF cond.right.v # 0 THEN <<type_of(cond.left, TS_num)>> ELSE << >>
  ELSE (IF cond.op # "EQ" /\ cond.op # "NE"
          THEN <<type_of(cond.left, TS_nonfd)>> ELSE << >>)
       \o same_type(TS_all, cond.left, cond.right.v)

\* operator()(Mem)
ExtractMem(ins) ==
  LET reg == ins.access.basereg
      width == Imm(ins.access.width)
      offset == ins.access.offset
  IN IF reg = 10 THEN check_access(TS_stack, reg, offset, width)
     ELSE <<type_of(reg, TS_ptr)>>
          \o check_access(TS_ptr, reg, offset, width)
          \o (IF ~is_priviledged /\ ~ins.is_load /\ ~ins.value.imm
                THEN <<TypeConstraintGiven(RT(ins.value.v, TS_num),
                                           RT(reg, TS_maps)),
                       TypeConstraintGiven(RT(ins.value.v, TS_num),
                                           RT(reg, TS_ctx)),
                       TypeConstraintGiven(RT(ins.value.v, TS_num),
                                           RT(reg, TS_packet))>>
              ELSE << >>)

\* operator()(LockAdd)
ExtractLockAdd(ins) ==
  <<type_of(ins.access.basereg, TS_maps)>>
  \o check_access(TS_maps, ins.access.basereg, ins.access.offset,
                  Imm(ins.access.width))

\* operator()(Bin)
ExtractBin(ins) ==
  CASE ins.op = "MOV" -> << >>
    [] ins.op = "ADD" ->
         IF ~ins.v.imm
           THEN <<TypeConstraintGiven(RT(ins.v.v, TS_num), RT(ins.dst, TS_ptr)),
                  TypeConstraintGiven(RT(ins.dst, TS_num), RT(ins.v.v, TS_ptr))>>
         ELSE << >>
    [] ins.op = "SUB" ->
         IF ~ins.v.imm
           THEN <<type_of(ins.dst, TS_nonfd)>>
                \o same_type(TS_maps \cup TS_ctx \cup TS_packet,
                             ins.v.v, ins.dst)
                \o <<type_of(ins.v.v, TS_nonfd)>>
         ELSE << >>
    [] OTHER -> <<type_of(ins.dst, TS_num)>>

\* std::visit(AssertionExtractor{info}, ins): the assertions of one
\* instruction, in the order they are pushed.
Extract(ins) ==
  CASE ins.kind = "Exit" -> <<type_of(0, TS_num)>>
    [] ins.kind = "Call" -> ExtractCall(ins)
    [] ins.kind = "Assume" -> explicate(ins.cond)
    [] ins.kind = "Jmp" ->
         IF ins.cond.op = "NONE" THEN << >> ELSE explicate(ins.cond)
    [] ins.kind = "Mem" -> ExtractMem(ins)
    [] ins.kind = "LockAdd" -> ExtractLockAdd(ins)
    [] ins.kind = "Bin" -> ExtractBin(ins)
    [] OTHER -> << >>

\* The assertions of ins as Assert instructions.
AssertsFor(ins) ==
  LET ex == Extract(ins) IN [i \in 1 .. Len(ex) |-> AssertOf(ex[i])]

\* A loop body that would push the instruction before its assertions.
ExplicateInsAfter(ins) == <<ins>> \o AssertsFor(ins)

\* The body of the outer loop of explicate_assertions for one instruction:
\* its assertions, then the instruction.
ExplicateIns(ins) == AssertsFor(ins) \o <<ins>>

RECURSIVE ExplicateInsts(_)
\* The new instruction list of one block (ai.cpp:711-720).
ExplicateInsts(old_insts) ==
  IF old_insts = << >> THEN << >>
  ELSE ExplicateIns(Head(old_insts)) \o ExplicateInsts(Tail(old_insts))

\* ----------------------------------------------------------------- programs
\* A program is a Cfg before explicate_assertions: n blocks labelled 1..n
\* with keys() = <<1, ..., n>> (topological, the entry first), its edges, and
\* the instruction list of each block.  The lists hold no Assert.
RECURSIVE SortedSeq(_)
SortedSeq(S) ==
  IF S = {} THEN << >>
  ELSE LET x == CHOOSE y \in S : \A z \in S : y <= z
       IN <<x>> \o SortedSeq(S \ {x})

NextList(g, l) == SortedSeq({e[2] : e \in {d \in g.edges : d[1] = l}})
PrevList(g, l) == SortedSeq({e[1] : e \in {d \in g.edges : d[2] = l}})

Program(n, edges, insts) == [n |-> n, edges |-> edges, insts |-> insts]

ldx(dst, base, off, width) == Mem(Access(base, off, width), Reg(dst), TRUE)
stx(base, off, width, src) == Mem(Access(base, off, width), Reg(src), FALSE)
MapLookupCall ==
  Call(<<ArgSingle("MAP_FD", 1), ArgSingle("PTR_TO_MAP_KEY", 2)>>, << >>, TRUE)

\* mov r0, 0; exit
ProgReturnZero == Program(1, {}, << <<Bin("MOV", 0, Imm(0)), Exit>> >>)
\* mov r0, 1; mov r1, r10; add r1, -8; stx [r1], r0; ldx r2, [r1]; exit
ProgStackRoundTrip ==
  Program(1, {}, << <<Bin("MOV", 0, Imm(1)), Bin("MOV", 1, Reg(10)),
                      Bin("ADD", 1, Imm(-8)), stx(1, 0, 8, 0),
                      ldx(2, 1, 0, 8), Exit>> >>)
\* ldx r0, [r1+0]; add r0, 1; ldx r2, [r0]
ProgPacketNoCheck ==
  Program(1, {}, << <<ldx(0, 1, 0, 4), Bin("ADD", 0, Imm(1)),
                      ldx(2, 0, 0, 1)>> >>)
\* the same with the bound check "r3 = r0 + 1; assume r3 <= data_end" first
ProgPacketChecked ==
  Program(1, {}, << <<ldx(0, 1, 0, 4), ldx(4, 1, 4, 4),
                      Bin("MOV", 3, Reg(0)), Bin("ADD", 3, Imm(2)),
                      Assume(Cond("LE", 3, Reg(4))), Bin("ADD", 0, Imm(1)),
                      ldx(2, 0, 0, 1)>> >>)
\* a packet access at an offset read from the context (an unknown number)
ProgPacketVarOffset ==
  Program(1, {}, << <<ldx(0, 1, 0, 4), ldx(2, 1, 12, 4),
                      Bin("ADD", 0, Reg(2)), ldx(3, 0, 0, 1)>> >>)
\* r1 = map_fd; r2 = r10 - 4; call map_lookup_elem; ldx r3, [r0]
ProgMapLookupNoCheck ==
  Program(1, {}, << <<LoadMapFd(1, 0), Bin("MOV", 2, Reg(10)),
                      Bin("ADD", 2, Imm(-4)), MapLookupCall,
                      ldx(3, 0, 0, 4)>> >>)
\* r6 = ctx; r0 = map_lookup_elem(...); stx [r0+0], r6
ProgLeakCtx ==
  Program(1, {}, << <<Bin("MOV", 6, Reg(1)), LoadMapFd(1, 0),
                      Bin("MOV", 2, Reg(10)), Bin("ADD", 2, Imm(-4)),
                      MapLookupCall, stx(0, 0, 8, 6)>> >>)
\* the same storing a number
ProgStoreNum ==
  Program(1, {}, << <<Bin("MOV", 6, Imm(7)), LoadMapFd(1, 0),
                      Bin("MOV", 2, Reg(10)), Bin("ADD", 2, Imm(-4)),
                      MapLookupCall, stx(0, 0, 8, 6)>> >>)
\* an instruction the unmarshaller could not decode
ProgUndefined == Program(1, {}, << <<Bin("MOV", 0, Imm(0)), Undefined>> >>)
\* the instructions without assertions of their own, and a helper call with a
\* memory argument
ProgMisc ==
  Program(2, {<<1, 2>>},
          << <<Bin("MOV", 6, Reg(1)), Un(6), Bin("MOV", 1, Reg(10)),
               Bin("ADD", 1, Imm(-8)), Bin("MOV", 2, Imm(8)),
               Call(<< >>, <<ArgPair("PTR_TO_UNINIT_MEM", 1, 2, FALSE)>>,
                    FALSE),
               Packet>>,
             <<Jmp(NoCond), Bin("MUL", 0, Imm(2)),
               LockAdd(Access(6, 0, 4), 0), Exit>> >>)

\* a helper call with two memory arguments, (r1, r2) and (r3, r4), both
\* eight bytes of the stack
ProgTwoPairs ==
  Program(1, {},
          << <<Bin("MOV", 1, Reg(10)), Bin("ADD", 1, Imm(-8)),
               Bin("MOV", 2, Imm(8)), Bin("MOV", 3, Reg(10)),
               Bin("ADD", 3, Imm(-16)), Bin("MOV", 4, Imm(8)),
               Call(<< >>, <<ArgPair("PTR_TO_MEM", 1, 2, FALSE),
                             ArgPair("PTR_TO_MEM_OR_NULL", 3, 4, TRUE)>>,
                    FALSE),
               Exit>> >>)

\* a packet pointer at an unknown offset compared with packet_end
ProgPacketVarChecked ==
  Program(1, {}, << <<ldx(0, 1, 0, 4), ldx(4, 1, 4, 4), ldx(2, 1, 12, 4),
                      Bin("ADD", 0, Reg(2)), Assume(Cond("LE", 0, Reg(4))),
                      Assume(Cond("GT", 0, Reg(4)))>> >>)
\* a load through the context pointer moved by an unknown number
ProgCtxVarOffset ==
  Program(1, {}, << <<ldx(2, 1, 12, 4), Bin("ADD", 1, Reg(2)),
                      ldx(3, 1, 0, 4)>> >>)
\* four blocks, block 4 reached by the edge 1->4 and by the path 1->2->3->4
\* on which r0 is written
ProgLongShort ==
  Program(4, {<<1, 2>>, <<1, 4>>, <<2, 3>>, <<3, 4>>},
          << << >>, <<Bin("MOV", 0, Imm(0))>>, <<Bin("MOV", 6, Imm(1))>>,
             << >> >>)
\* a packet pointer moved beyond the sentinel and compared with packet_end,
\* then moved by an unknown number and compared again
ProgPacketFar ==
  Program(1, {}, << <<ldx(0, 1, 0, 4), ldx(4, 1, 4, 4),
                      Bin("ADD", 0, Imm(SIZE_SENTINEL + 1)),
                      Assume(Cond("LE", 0, Reg(4))), ldx(2, 1, 12, 4),
                      Bin("ADD", 0, Reg(2)),
                      Assume(Cond("LE", 0, Reg(4)))>> >>)
\* r2 is read before anything wrote it
ProgUninit == Program(1, {}, << <<Bin("ADD", 0, Reg(2)), Exit>> >>)

Scenarios ==
  {ProgReturnZero, ProgStackRoundTrip, ProgPacketNoCheck, ProgPacketChecked,
   ProgPacketVarOffset, ProgMapLookupNoCheck, ProgLeakCtx, ProgStoreNum,
   ProgUndefined, ProgMisc, ProgTwoPairs, ProgUninit, ProgPacketVarChecked,
   ProgCtxVarOffset, ProgLongShort, ProgPacketFar}

\* The instructions of the generated programs.
Pool ==
  {Bin("MOV", 0, Imm(0)), Bin("ADD", 0, Reg(2)), Bin("MOV", 10, Reg(1)),
   ldx(0, 1, 0, 4), ldx(2, 0, 0, 1), stx(10, -8, 8, 1), Exit}

\* The generated graphs, each of three blocks: a chain, a triangle, and a
\* graph whose block 2 no path from the entry reaches.
GenShapes ==
  {{<<1, 2>>, <<2, 3>>}, {<<1, 2>>, <<1, 3>>, <<2, 3>>}, {<<1, 3>>, <<2, 3>>}}

\* Three instruction lists over Pool of lengths L[1], L[2], L[3].
ListsOfLengths(L) ==
  {<<a, b, c>> : a \in [1 .. L[1] -> Pool], b \in [1 .. L[2] -> Pool],
                 c \in [1 .. L[3] -> Pool]}

Generated ==
  {Program(3, g, ii) :
     g \in GenShapes,
     ii \in UNION {ListsOfLengths(L) :
                     L \in {M \in (0 .. MaxInsts) \X (0 .. MaxInsts)
                                  \X (0 .. MaxInsts) :
                              M[1] + M[2] + M[3] <= MaxInsts}}}

Programs == Scenarios \cup Generated

\* The Cfg of a program.
CfgOf(g) ==
  [l \in 1 .. g.n |->
     [insts |-> g.insts[l], nextlist |-> NextList(g, l),
      prevlist |-> PrevList(g, l)]]

\* ------------------------------------------------------------ state machine
VARIABLES
  prog,    \* the program as given, before explicate_assertions
  cfg,     \* the Cfg: per label its insts, nextlist and prevlist
  pc,      \* where main is: "explicate", "analyzer", "worklist", "recompute",
           \* "sweep", "done"; "error" (runtime_error thrown), "abort"
  key,     \* position in cfg.keys() of the loops over the blocks
  pre,     \* Analyzer::pre
  post,    \* Analyzer::post
  w,       \* the worklist
  count,   \* worklist's count
  label,   \* the label popped
  idx,     \* position in the block's instruction list
  dom,     \* the local Machine of recompute and of the sweep
  mono,    \* the drawn inputs and the results of one application of a pure
           \* function: two transfers compared, or the joins of a triple
  main     \* main's command line and results: headers (the path is
           \* "@headers"), list (-l), domain, nprogs (raw_progs.size()),
           \* unmarshal_ok, res, and status (the value returned, -1 before)

vars ==
  <<prog, cfg, pc, key, pre, post, w, count, label, idx, dom, ndebug, mono,
    main>>

Keys == [i \in 1 .. prog.n |-> i]
NoMono == [on |-> FALSE]
\* The command line "FILE SECTION" of a file with one program in the section,
\* which unmarshals, under the default domain.
MainDefault ==
  [headers |-> FALSE, list |-> FALSE, domain |-> "zoneCrab", nprogs |-> 1,
   unmarshal_ok |-> TRUE, res |-> "none", status |-> -1]

Init ==
  /\ prog \in Programs
  /\ cfg = CfgOf(prog)
  /\ pc = "explicate"
  /\ key = 1
  /\ pre = << >>
  /\ post = << >>
  /\ w = << >>
  /\ count = << >>
  /\ label = 0
  /\ idx = 0
  /\ dom = MachineDefault
  /\ ndebug \in BOOLEAN
  /\ mono = NoMono
  /\ main = MainDefault

\* explicate_assertions, one pass of its loop over cfg.keys().
ExplicateBlock(old_cfg, this_label) ==
  [old_cfg EXCEPT ![this_label].insts = ExplicateInsts(@)]

Explicate ==
  /\ pc = "explicate"
  /\ cfg' = ExplicateBlock(cfg, Keys[key])
  /\ key' = IF key < Len(Keys) THEN key + 1 ELSE 1
  /\ pc' = IF key < Len(Keys) THEN "explicate" ELSE "analyzer"
  /\ UNCHANGED <<prog, pre, post, w, count, label, idx, dom, ndebug, mono,
                 main>>

\* Analyzer::Analyzer, and the first lines of worklist.
AnalyzerPre ==
  [l \in DOMAIN cfg |->
     IF l = Keys[1] THEN MachineInit(MachineDefault) ELSE MachineDefault]

Construct ==
  /\ pc = "analyzer"
  /\ pre' = AnalyzerPre
  /\ post' = [l \in DOMAIN cfg |-> MachineDefault]
  /\ w' = <<Keys[1]>>
  /\ count' = [l \in DOMAIN cfg |-> 0]
  /\ pc' = "worklist"
  /\ UNCHANGED <<prog, cfg, key, label, idx, dom, ndebug, mono, main>>

RECURSIVE JoinPosts(_, _, _)
\* Analyzer::join: new_pre |= post.at(l) for every l of prevs.
JoinPosts(new_pre, prevs, posts) ==
  IF prevs = << >> THEN new_pre
  ELSE JoinPosts(MachineJoin(new_pre, posts[Head(prevs)]), Tail(prevs), posts)

AnalyzerJoin(pres, posts, prevs, into) ==
  [pres EXCEPT ![into] = JoinPosts(pres[into], prevs, posts)]

\* One pass of the while loop of worklist up to the call of recompute: the
\* pop and the join.
\* A worklist whose loop would read w.front() and leave it in the list.
WorklistFrontKept ==
  /\ pc = "worklist"
  /\ w # << >>
  /\ label' = Head(w)
  /\ w' = w
  /\ pre' = AnalyzerJoin(pre, post, cfg[Head(w)].prevlist, Head(w))
  /\ dom' = pre'[Head(w)]
  /\ idx' = 1
  /\ pc' = "recompute"
  /\ UNCHANGED <<prog, cfg, key, post, count, ndebug, mono, main>>

\* worklist, the head of a pass of its loop: pop the front label and join.
WorklistPop ==
  /\ pc = "worklist"
  /\ w # << >>
  /\ label' = Head(w)
  /\ w' = Tail(w)
  /\ pre' = AnalyzerJoin(pre, post, cfg[Head(w)].prevlist, Head(w))
  /\ dom' = pre'[Head(w)]
  /\ idx' = 1
  /\ pc' = "recompute"
  /\ UNCHANGED <<prog, cfg, key, post, count, ndebug, mono, main>>

\* recompute, one pass of its loop: dom.visit(ins).  A throw or an abort
\* leaves the loop, recompute, worklist and analyze_rcp.
PcAfter(st, here) ==
  IF st = "ok" THEN here ELSE IF st = "throw" THEN "error" ELSE "abort"

RecomputeStep ==
  /\ pc = "recompute"
  /\ idx <= Len(cfg[label].insts)
  /\ \E out \in Visit(dom, cfg[label].insts[idx]) :
       /\ pc' = PcAfter(out.st, "recompute")
       /\ dom' = out.m
       /\ idx' = IF out.st = "ok" THEN idx + 1 ELSE idx
  /\ UNCHANGED <<prog, cfg, key, pre, post, w, count, label, ndebug, mono,
                 main>>

RECURSIVE Unique(_)
\* std::unique: consecutive duplicates removed.
Unique(q) ==
  IF Len(q) < 2 THEN q
  ELSE IF q[1] = q[2] THEN Unique(Tail(q))
  ELSE <<q[1]>> \o Unique(Tail(q))

RECURSIVE PushNextEager(_, _)
\* A loop that would push a successor at its first count.
PushNextEager(wc, nexts) ==
  IF nexts = << >> THEN wc
  ELSE LET n == Head(nexts)
           c == wc.count[n] + 1
       IN PushNextEager([w |-> Append(wc.w, n),
                         count |-> [wc.count EXCEPT ![n] = c]],
                        Tail(nexts))

RECURSIVE PushNext(_, _)
\* The loop over bb.nextlist of worklist, on the pair [w, count].
PushNext(wc, nexts) ==
  IF nexts = << >> THEN wc
  ELSE LET n == Head(nexts)
           c == wc.count[n] + 1
       IN PushNext([w |-> IF c >= Len(cfg[n].prevlist)
                            THEN Append(wc.w, n) ELSE wc.w,
                    count |-> [wc.count EXCEPT ![n] = c]],
                   Tail(nexts))

\* The end of recompute (post compared and stored) and the rest of the pass
\* of worklist's loop.
RecomputeEnd ==
  /\ pc = "recompute"
  /\ idx > Len(cfg[label].insts)
  /\ LET res == post[label] # dom
         wc == PushNext([w |-> w, count |-> count], cfg[label].nextlist)
     IN /\ post' = [post EXCEPT ![label] = dom]
        /\ w' = IF res THEN Unique(wc.w) ELSE w
        /\ count' = IF res THEN wc.count ELSE count
  /\ pc' = "worklist"
  /\ UNCHANGED <<prog, cfg, key, pre, label, idx, dom, ndebug, mono, main>>

\* worklist returns; analyze_rcp starts its sweep over cfg.keys().
WorklistEnd ==
  /\ pc = "worklist"
  /\ w = << >>
  /\ pc' = "sweep"
  /\ key' = 1
  /\ idx' = 1
  /\ dom' = pre[Keys[1]]
  /\ UNCHANGED <<prog, cfg, pre, post, w, count, label, ndebug, mono, main>>

\* The sweep of analyze_rcp, one pass of its inner loop: an Assert not yet
\* satisfied gets dom.satisfied(a), then dom.visit(ins).
\* A sweep that would mark every assertion without asking the Machine.
SweepMarksAll(m, ins) ==
  IF IsAssert(ins) THEN [ins EXCEPT !.satisfied = TRUE] ELSE ins

SweepSatisfied(m, ins) ==
  IF IsAssert(ins) /\ ~ins.satisfied
    THEN [ins EXCEPT !.satisfied = Satisfied(m, ins)]
  ELSE ins

SweepThrows(m, ins) ==
  IsAssert(ins) /\ ~ins.satisfied
  /\ \E r \in CstReads(ins.cst) : ~m.regs[r].present

SweepOutcomes(m, ins) ==
  IF SweepThrows(m, ins) THEN {Throw(m)} ELSE Visit(m, ins)

SweepStep ==
  /\ pc = "sweep"
  /\ idx <= Len(cfg[Keys[key]].insts)
  /\ LET l == Keys[key]
         ins == cfg[l].insts[idx]
     IN \E out \in SweepOutcomes(dom, ins) :
          /\ cfg' = IF SweepThrows(dom, ins) THEN cfg
                    ELSE [cfg EXCEPT ![l].insts[idx] = SweepSatisfied(dom, ins)]
          /\ pc' = PcAfter(out.st, "sweep")
          /\ dom' = out.m
          /\ idx' = IF out.st = "ok" THEN idx + 1 ELSE idx
  /\ UNCHANGED <<prog, key, pre, post, w, count, label, ndebug, mono, main>>

\* The end of a block in the sweep: the next key, or analyze_rcp returns.
SweepBlockEnd ==
  /\ pc = "sweep"
  /\ idx > Len(cfg[Keys[key]].insts)
  /\ pc' = IF key < Len(Keys) THEN "sweep" ELSE "done"
  /\ key' = IF key < Len(Keys) THEN key + 1 ELSE key
  /\ idx' = IF key < Len(Keys) THEN 1 ELSE idx
  /\ dom' = IF key < Len(Keys) THEN pre[Keys[key + 1]] ELSE dom
  /\ UNCHANGED <<prog, cfg, pre, post, w, count, label, ndebug, mono, main>>

Next ==
  \/ Explicate
  \/ Construct
  \/ WorklistPop
  \/ RecomputeStep
  \/ RecomputeEnd
  \/ WorklistEnd
  \/ SweepStep
  \/ SweepBlockEnd

Spec == Init /\ [][Next]_vars

\* The verdict of abs_validate: every Assert of every block is satisfied.
Verdict ==
  \A l \in DOMAIN cfg : \A i \in DOMAIN cfg[l].insts :
    IsAssert(cfg[l].insts[i]) => cfg[l].insts[i].satisfied

\* --------------------------------------------------------------------- main
\* The command lines main is run with, and what read_elf and unmarshal give.
MainInputs ==
  [headers : BOOLEAN, list : BOOLEAN, domain : {"stats", "linux", "zoneCrab"},
   nprogs : 0 .. 2, unmarshal_ok : BOOLEAN, res : {"none"}, status : {-1}]

\* A main that would return res itself.
ExitOfRes(res) == IF res THEN 1 ELSE 0

\* return !res
ExitOf(res) == IF res THEN 0 ELSE 1

\* The status the shell reports for a process ended by SIGABRT (signal 6).
SIGABRT_STATUS == 128 + 6

InitMain ==
  /\ prog \in Scenarios
  /\ cfg = CfgOf(prog)
  /\ pc = "main"
  /\ key = 1
  /\ pre = << >>
  /\ post = << >>
  /\ w = << >>
  /\ count = << >>
  /\ label = 0
  /\ idx = 0
  /\ dom = MachineDefault
  /\ ndebug \in BOOLEAN
  /\ mono = NoMono
  /\ main \in MainInputs

\* main up to the choice of the analysis (main_check.cpp:66-129): "@headers"
\* returns 0; -l, or a number of programs other than one, returns 0 or 64; a
\* program that does not unmarshal returns 1.  Under the domains stats and
\* linux the Cfg is explicated and main returns without abs_validate: 0 for
\* stats, !res for the verdict res of the kernel.
MainStart ==
  /\ pc = "main"
  /\ IF main.headers
       THEN /\ main' = [main EXCEPT !.status = 0]
            /\ pc' = "exited"
            /\ cfg' = cfg
     ELSE IF main.list \/ main.nprogs # 1
       THEN /\ main' = [main EXCEPT !.status = IF main.list THEN 0 ELSE 64]
            /\ pc' = "exited"
            /\ cfg' = cfg
     ELSE IF ~main.unmarshal_ok
       THEN /\ main' = [main EXCEPT !.status = 1]
            /\ pc' = "exited"
            /\ cfg' = cfg
     ELSE IF main.domain = "stats"
       THEN /\ main' = [main EXCEPT !.status = 0]
            /\ pc' = "exited"
            /\ cfg' = [l \in DOMAIN cfg |-> ExplicateBlock(cfg, l)[l]]
     ELSE IF main.domain = "linux"
       THEN /\ \E res \in BOOLEAN :
                 main' = [main EXCEPT
                            !.res = IF res THEN "true" ELSE "false",
                            !.status = ExitOf(res)]
            /\ pc' = "exited"
            /\ cfg' = [l \in DOMAIN cfg |-> ExplicateBlock(cfg, l)[l]]
     ELSE /\ main' = main
          /\ pc' = "explicate"
          /\ cfg' = cfg
  /\ UNCHANGED <<prog, key, pre, post, w, count, label, idx, dom, ndebug,
                 mono>>

\* abs_validate has returned its verdict: main returns !res.
MainReturn ==
  /\ pc = "done"
  /\ main' = [main EXCEPT !.res = IF Verdict THEN "true" ELSE "false",
                          !.status = ExitOf(Verdict)]
  /\ pc' = "exited"
  /\ UNCHANGED <<prog, cfg, key, pre, post, w, count, label, idx, dom,
                 ndebug, mono>>

\* The analysis ended in a runtime_error or in abort().  Nothing in main
\* catches the exception; abs_validate either lets it through (the process
\* is terminated) or turns it into a verdict of false.
MainDies ==
  /\ pc \in {"error", "abort"}
  /\ \E st \in (IF pc = "error" THEN {1, SIGABRT_STATUS}
                  ELSE {SIGABRT_STATUS}) :
       main' = [main EXCEPT !.status = st]
  /\ pc' = "exited"
  /\ UNCHANGED <<prog, cfg, key, pre, post, w, count, label, idx, dom,
                 ndebug, mono>>

NextMain ==
  \/ MainStart
  \/ MainReturn
  \/ MainDies
  \/ Next

SpecMain == InitMain /\ [][NextMain]_vars

\* ------------------------------------------------------------------ claims
\* Helpers of the claims' formulas.
InstsOf(l) == cfg[l].insts
Returned == pc \in {"sweep", "done"}

RECURSIVE RunFrom(_, _, _)
\* Every outcome of visiting insts[i], insts[i+1], ... in turn from any of
\* the Machines ms: the Machines at the end, and the throws and aborts on
\* the way.
RunFrom(outs, insts, i) ==
  IF i > Len(insts) THEN outs
  ELSE LET oks == {o \in outs : o.st = "ok"}
           stepped == UNION {Visit(o.m, insts[i]) : o \in oks}
       IN (outs \ oks) \cup RunFrom(stepped, insts, i + 1)

\* The Machines dom can be before insts[i] when the block is walked from m.
DomsBefore(m, insts, i) ==
  {o.m : o \in {x \in RunFrom({Ok(m)}, SubSeq(insts, 1, i - 1), 1) :
                  x.st = "ok"}}

\* C1: the program "ldx r0,[r1+0]; add r0,1; ldx r2,[r0]" compares nothing
\* with packet_end, so once analyze_rcp has returned the InPacket assertion
\* on r0 is not satisfied and the verdict is reject.
C1_UncheckedPacketAccessRejected ==
  (pc = "done" /\ prog = ProgPacketNoCheck) =>
    /\ ~Verdict
    /\ \A i \in DOMAIN InstsOf(1) :
         (IsAssert(InstsOf(1)[i]) /\ InstsOf(1)[i].cst.ck = "InPacket"
          /\ InstsOf(1)[i].cst.reg = 0) => ~InstsOf(1)[i].satisfied

\* C2: after worklist has returned, every label is at a fixpoint: the join
\* of its predecessors' post into its pre changes nothing, and recompute from
\* its pre gives its post again.
C2_FixpointIdempotent ==
  Returned =>
    \A l \in DOMAIN cfg :
      /\ JoinPosts(pre[l], cfg[l].prevlist, post) = pre[l]
      /\ RunFrom({Ok(pre[l])}, InstsOf(l), 1) = {Ok(post[l])}

\* The program runs on its own: a step that can be taken is taken.
FairSpec == Spec /\ WF_vars(Next)

\* worklist() has left its loop: w is empty, or an error left it.
WorklistOver ==
  \/ pc = "worklist" /\ w = << >>
  \/ pc \in {"error", "abort"}

\* C3: from the queue {entry} on, the worklist driver reaches an empty queue
\* or a fatal error after finitely many pops, whatever the blocks hold.
C3_WorklistTerminates == (pc = "worklist") ~> WorklistOver

\* The queue is empty after the two predecessors of block 3 and block 3
\* itself were popped.
C3_Witness ==
  /\ pc = "worklist" /\ w = << >>
  /\ prog.n = 3 /\ count[3] = 2 /\ label = 3

\* recompute is about to visit an instruction that reads an absent slot.
ReadsAbsent ==
  /\ pc = "recompute"
  /\ idx <= Len(InstsOf(label))
  /\ \E r \in Reads(InstsOf(label)[idx], dom) : ~dom.regs[r].present

\* C4: when a transfer function reads a register whose slot is absent, the
\* uninitialized-register error is raised and leaves recompute and worklist:
\* post of the block is not updated, nothing is queued or joined, and no
\* step follows the error.
C4_AbsentReadIsFatal ==
  [][/\ pc # "error"
     /\ ReadsAbsent => /\ pc' = "error"
                       /\ UNCHANGED <<pre, post, w, count, cfg, label>>]_vars

\* The error was raised in block 2, whose post is still the default Machine
\* while block 1 was recomputed.
C4_Witness ==
  /\ pc = "error" /\ label = 2
  /\ post[2] = MachineDefault /\ post[1] # MachineDefault
  /\ \E r \in Reads(InstsOf(2)[idx], dom) : ~dom.regs[r].present

\* C5: after analyze_rcp returns, the satisfied flag of every Assert is
\* dom.satisfied(a) for a Machine dom obtained from pre[l] by the transfers
\* of the instructions before it, and the verdict is accept exactly when
\* every flag is set.
C5_AssertionDischarge ==
  pc = "done" =>
    /\ \A l \in DOMAIN cfg : \A i \in DOMAIN InstsOf(l) :
         IsAssert(InstsOf(l)[i]) =>
           InstsOf(l)[i].satisfied \in
             {Satisfied(d, InstsOf(l)[i]) :
                d \in DomsBefore(pre[l], InstsOf(l), i)}
    /\ Verdict <=> \A l \in DOMAIN cfg : \A i \in DOMAIN InstsOf(l) :
                     IsAssert(InstsOf(l)[i]) => InstsOf(l)[i].satisfied

\* The sweep is over and left assertions of both kinds behind.
C5_Witness ==
  /\ pc = "done" /\ prog = ProgMapLookupNoCheck
  /\ \E i \in DOMAIN InstsOf(1) :
       IsAssert(InstsOf(1)[i]) /\ InstsOf(1)[i].satisfied
  /\ \E i \in DOMAIN InstsOf(1) :
       IsAssert(InstsOf(1)[i]) /\ ~InstsOf(1)[i].satisfied

\* The value of r0 after a lookup in map 0: num 0 or a pointer to the value
\* at offset 0.
NullOrMapValue == With(WithNum(RcpBot, NSSingle(0)), 0, NSSingle(0))

\* recompute is about to visit a Call with returns_map, r1 the fd of map 0.
AtMapLookup ==
  /\ pc = "recompute"
  /\ idx <= Len(InstsOf(label))
  /\ InstsOf(label)[idx].kind = "Call"
  /\ InstsOf(label)[idx].returns_map
  /\ dom.regs[1] = Some(WithFd(RcpBot, 0))

\* The assertion "r: ptr" in front of an access through r.
IsPtrAssert(ins, r) ==
  /\ IsAssert(ins) /\ ins.cst.ck = "Type" /\ ~ins.cst.has_given
  /\ ins.cst.then = RT(r, TS_ptr)

\* C6: after a Call with returns_map r0 is num 0 joined with a map-value
\* pointer at offset 0, and with no null check the "r0: ptr" assertion of a
\* following load through r0 is left unsatisfied: the program is rejected.
C6_NullableLookupRejected ==
  /\ [][AtMapLookup /\ pc' = "recompute" =>
          dom'.regs[0] = Some(NullOrMapValue)]_vars
  /\ [](pc = "done" /\ prog = ProgMapLookupNoCheck =>
          /\ ~Verdict
          /\ \E i \in DOMAIN InstsOf(1) :
               IsPtrAssert(InstsOf(1)[i], 0) /\ ~InstsOf(1)[i].satisfied)

\* The lookup was visited and r0 holds its nullable result.
C6_Witness ==
  /\ pc = "recompute" /\ prog = ProgMapLookupNoCheck
  /\ idx > 1 /\ idx <= Len(InstsOf(1))
  /\ InstsOf(1)[idx - 1].kind = "Call"
  /\ dom.regs[0] = Some(NullOrMapValue)

\* ins stores a register through a base register other than r10.
IsRegStore(ins) ==
  /\ ins.kind = "Mem" /\ ~ins.is_load /\ ~ins.value.imm
  /\ ins.access.basereg # 10

\* The Assert "value: num when base: ts".
IsLeakAssert(ins, value, base, ts) ==
  /\ IsAssert(ins) /\ ins.cst.ck = "Type" /\ ins.cst.has_given
  /\ ins.cst.then = RT(value, TS_num)
  /\ ins.cst.given = RT(base, ts)

\* C7: every store of a register through a base other than r10 comes with
\* the three assertions "value: num when base: maps / ctx / packet", and
\* storing a context pointer through a map-value pointer leaves the maps one
\* unsatisfied: the program is rejected.
C7_PointerLeakPrevented ==
  /\ pc # "explicate" =>
       \A l \in DOMAIN cfg : \A i \in DOMAIN InstsOf(l) :
         IsRegStore(InstsOf(l)[i]) =>
           \A ts \in {TS_maps, TS_ctx, TS_packet} :
             \E j \in 1 .. i - 1 :
               /\ IsLeakAssert(InstsOf(l)[j], InstsOf(l)[i].value.v,
                               InstsOf(l)[i].access.basereg, ts)
               /\ \A k \in j .. i - 1 : IsAssert(InstsOf(l)[k])
  /\ pc = "done" /\ prog = ProgLeakCtx =>
       /\ ~Verdict
       /\ \E i \in DOMAIN InstsOf(1) :
            IsLeakAssert(InstsOf(1)[i], 6, 0, TS_maps)
            /\ ~InstsOf(1)[i].satisfied

\* The program storing the context pointer was swept; its maps assertion is
\* unsatisfied, the ctx and packet ones hold.
C7_Witness ==
  /\ pc = "done" /\ prog = ProgLeakCtx
  /\ \E i \in DOMAIN InstsOf(1) :
       IsLeakAssert(InstsOf(1)[i], 6, 0, TS_maps) /\ ~InstsOf(1)[i].satisfied
  /\ \E i \in DOMAIN InstsOf(1) :
       IsLeakAssert(InstsOf(1)[i], 6, 0, TS_ctx) /\ InstsOf(1)[i].satisfied

\* C8: in every Machine recompute goes through, r10 is the single stack
\* pointer at offset STACK_SIZE, whatever the instructions visited.
C8_FramePointerInvariant ==
  pc = "recompute" => dom.regs[10] = Some(WithStack(RcpBot, NSSingle(STACK_SIZE)))

\* The block label has been through explicate_assertions.
Explicated(l) == pc # "explicate" \/ l < key

RECURSIVE PosOf(_, _)
\* Where instruction j of the list orig stands once each instruction has its
\* assertions in front of it.
PosOf(orig, j) ==
  IF j = 0 THEN 0 ELSE PosOf(orig, j - 1) + Len(Extract(orig[j])) + 1

\* An instruction with the satisfied flag of an Assert cleared.
Unmarked(ins) == IF IsAssert(ins) THEN [ins EXCEPT !.satisfied = FALSE] ELSE ins

\* C9: in an explicated block every original instruction is in its place, in
\* order, right behind exactly the assertions extracted from it; nothing
\* follows the last one; the successor and predecessor lists and the blocks
\* not yet explicated are as they were.
C9_InsertionIsLocal ==
  \A l \in DOMAIN cfg :
    LET orig == prog.insts[l]
        new == InstsOf(l)
    IN /\ cfg[l].nextlist = CfgOf(prog)[l].nextlist
       /\ cfg[l].prevlist = CfgOf(prog)[l].prevlist
       /\ ~Explicated(l) => new = orig
       /\ Explicated(l) =>
            /\ Len(new) = PosOf(orig, Len(orig))
            /\ \A j \in DOMAIN orig :
                 LET ex == Extract(orig[j])
                     at == PosOf(orig, j)
                 IN /\ new[at] = orig[j]
                    /\ \A k \in DOMAIN ex :
                         Unmarked(new[at - Len(ex) + k - 1]) = AssertOf(ex[k])

\* Every block is explicated and one of three grew.
C9_Witness ==
  /\ pc = "analyzer" /\ prog.n = 3
  /\ \E l \in DOMAIN cfg : Len(InstsOf(l)) > Len(prog.insts[l])
  /\ \E l \in DOMAIN cfg : Len(InstsOf(l)) = Len(prog.insts[l])

\* ------------------------------------------- the transfers on ordered pairs
\* The lattice order of Machine: a <= b when b absorbs a in the join.
MachineLeq(a, b) == MachineJoin(a, b) = b

\* Register values the compared Machines are built from.
MonoValues ==
  {WithNum(RcpBot, NSSingle(1)), numtop,
   WithPacket(RcpBot, 5), With(RcpBot, T_PACKET, NSTop),
   WithPacketEnd(RcpBot),
   WithStack(RcpBot, NSSingle(STACK_SIZE - 8)), With(RcpBot, T_STACK, NSTop)}

MonoSlots == {Absent} \cup {Some(v) : v \in MonoValues}

\* Machines after init() with r0 and r2 set and some validated packet size.
MonoMachines ==
  {[MachineInit(MachineDefault) EXCEPT
      !.regs[0] = r0, !.regs[2] = r2, !.data_end = size] :
     r0 \in MonoSlots, r2 \in MonoSlots,
     size \in {MinSizeHavoc, SIZE_SENTINEL}}

\* The instructions whose transfers are compared: those that write registers
\* and the validated packet size.
MonoInsts ==
  {Bin("MOV", 0, Reg(2)), Bin("ADD", 0, Reg(2)), Bin("SUB", 0, Reg(2)),
   Assume(Cond("LE", 0, Reg(2))), AssertOf(InPacket(0, 0, Imm(1))),
   ldx(2, 0, 0, 8), Packet, Call(<< >>, << >>, FALSE), LoadMapFd(0, 0),
   LockAdd(Access(0, 0, 4), 2), Exit}

InitMono ==
  /\ prog = ProgReturnZero
  /\ cfg = CfgOf(prog)
  /\ pc = "mono"
  /\ key = 1
  /\ pre = << >>
  /\ post = << >>
  /\ w = << >>
  /\ count = << >>
  /\ label = 0
  /\ idx = 0
  /\ dom = MachineDefault
  /\ ndebug \in BOOLEAN
  /\ main = MainDefault
  /\ \E ins \in MonoInsts : \E m1, m2 \in MonoMachines :
       /\ MachineLeq(m1, m2)
       /\ mono = [on |-> TRUE, applied |-> FALSE, ins |-> ins,
                  m1 |-> m1, m2 |-> m2, o1 |-> Ok(m1), o2 |-> Ok(m2)]

\* visit(ins) on both Machines of the pair.
MonoApply ==
  /\ pc = "mono"
  /\ ~mono.applied
  /\ \E o1 \in Visit(mono.m1, mono.ins) : \E o2 \in Visit(mono.m2, mono.ins) :
       mono' = [mono EXCEPT !.applied = TRUE, !.o1 = o1, !.o2 = o2]
  /\ UNCHANGED <<prog, cfg, pc, key, pre, post, w, count, label, idx, dom,
                 ndebug, main>>

NextMono == MonoApply

SpecMono == InitMono /\ [][NextMono]_vars

\* C10: the transfer of an instruction, where it is defined on both of two
\* Machines m1 <= m2, gives results in the same order.
C10_TransferMonotone ==
  (pc = "mono" /\ mono.applied /\ mono.o1.st = "ok" /\ mono.o2.st = "ok")
    => MachineLeq(mono.o1.m, mono.o2.m)

\* The constraints a memory argument of a helper call asks for: the type of
\* the pointer, a num size, the bound on the size, and the access checks.
PairRequirements(arg) ==
  {TypeConstraint(RT(arg.mem, IF arg.kind = "PTR_TO_MEM_OR_NULL"
                                THEN TS_mem \cup TS_num ELSE TS_mem)),
   TypeConstraint(RT(arg.size, TS_num)),
   LinearConstraint(IF arg.can_be_zero THEN "GE" ELSE "GT",
                    arg.size, 0, Imm(0), Imm(0), TS_num)}
  \cup {check_access(TS_mem, arg.mem, 0, Reg(arg.size))[k] :
          k \in DOMAIN check_access(TS_mem, arg.mem, 0, Reg(arg.size))}

\* The constraints asserted right in front of instruction i of block l.
AssertedBefore(l, i) ==
  {InstsOf(l)[j].cst :
     j \in {k \in 1 .. i - 1 : \A n \in k .. i - 1 : IsAssert(InstsOf(l)[n])}}

\* C11: in an explicated block every Call has, right in front of it, the
\* assertions of each of its memory argument pairs, the second and later
\* pairs as well as the first: the type of arg.mem, num for arg.size, the
\* bound on the size and the check_access constraints.
C11_EveryPairAsserted ==
  \A l \in DOMAIN cfg :
    Explicated(l) =>
      \A i \in DOMAIN InstsOf(l) :
        InstsOf(l)[i].kind = "Call" =>
          \A p \in DOMAIN InstsOf(l)[i].pairs :
            PairRequirements(InstsOf(l)[i].pairs[p])
              \subseteq AssertedBefore(l, i)

\* The assertions of the first pair of every Call are in front of it.
C11_FirstPairAsserted ==
  \A l \in DOMAIN cfg :
    Explicated(l) =>
      \A i \in DOMAIN InstsOf(l) :
        (InstsOf(l)[i].kind = "Call" /\ InstsOf(l)[i].pairs # << >>) =>
          PairRequirements(InstsOf(l)[i].pairs[1])
            \subseteq AssertedBefore(l, i)

\* The address a Mem instruction goes through, from the Machine m.
AddrOf(m, a) == RcpAdd(At(m, a.access.basereg), EvalNum(a.access.offset))

\* ins is a Mem store every register of which is present in m, through an
\* address that is one stack offset and nothing else.
IsSingleStackStore(m, ins) ==
  /\ ins.kind = "Mem" /\ ~ins.is_load
  /\ \A r \in Reads(ins, m) : m.regs[r].present
  /\ NSIsSingle(GetStack(AddrOf(m, ins)))
  /\ RcpIsBot(WithStack(AddrOf(m, ins), NSBot))

\* What the load of the same width through the same address leaves in its
\* destination d, from the Machine m.
LoadedBack(m, ins, d) ==
  {o.m.regs[d] : o \in Visit(m, Mem(ins.access, Reg(d), TRUE))}

\* C12: when recompute has visited a Mem store through a singleton stack
\* pointer with no other region component, a load of the same width through
\* the same address, visited next, assigns exactly the stored value to its
\* destination; the program "mov r0,1; mov r1,r10; add r1,-8; stx [r1],r0;
\* ldx r2,[r1]; exit" ends with r2 = num{1} and is accepted.
C12_StackRoundTrip ==
  /\ [][(/\ pc = "recompute" /\ pc' = "recompute" /\ idx' = idx + 1
          /\ IsSingleStackStore(dom, InstsOf(label)[idx]))
          => \A d \in {0, 2} :
               LoadedBack(dom', InstsOf(label)[idx], d)
                 = {Some(Eval(dom, InstsOf(label)[idx].value))}]_vars
  /\ [](pc = "done" /\ prog = ProgStackRoundTrip =>
          /\ Verdict
          /\ post[1].regs[2] = Some(WithNum(RcpBot, NSSingle(1))))

\* The round-trip program was analysed: the stack holds num{1} in the cell
\* of eight bytes at offset 504, r2 holds what was stored, every assertion
\* is satisfied.
C12_Witness ==
  /\ pc = "done" /\ prog = ProgStackRoundTrip /\ Verdict
  /\ <<504, 8>> \in DOMAIN post[1].stack_arr.cells
  /\ post[1].stack_arr.cells[<<504, 8>>] = WithNum(RcpBot, NSSingle(1))
  /\ post[1].regs[2] = Some(WithNum(RcpBot, NSSingle(1)))

\* ------------------------------------------------ the joins of three Machines
JoinSlots ==
  {Absent, Some(WithNum(RcpBot, NSOf({1, 2, 3}))),
   Some(WithNum(RcpBot, NSOf({4, 5}))), Some(WithPacket(RcpBot, 5))}

JoinStacks ==
  {MemBot,
   MemStore([bot |-> FALSE, cells |-> << >>], NSSingle(STACK_SIZE - 8), 8,
            WithNum(RcpBot, NSSingle(1))),
   MemStore([bot |-> FALSE, cells |-> << >>], NSSingle(STACK_SIZE - 16), 8,
            WithCtx(RcpBot, 0))}

\* Machines with r0, a stack and a validated packet size of their own.
JoinMachines ==
  {[MachineInit(MachineDefault) EXCEPT
      !.regs[0] = r0, !.stack_arr = st, !.data_end = size] :
     r0 \in JoinSlots, st \in JoinStacks,
     size \in {MinSizeHavoc, 5, SIZE_SENTINEL}}

InitJoin ==
  /\ prog = ProgReturnZero
  /\ cfg = CfgOf(prog)
  /\ pc = "join"
  /\ key = 1
  /\ pre = << >>
  /\ post = << >>
  /\ w = << >>
  /\ count = << >>
  /\ label = 0
  /\ idx = 0
  /\ dom = MachineDefault
  /\ ndebug = FALSE
  /\ main = MainDefault
  /\ \E a, b, c \in JoinMachines :
       mono = [on |-> TRUE, applied |-> FALSE, a |-> a, b |-> b, c |-> c,
               ab |-> a, ba |-> b, ab_c |-> a, a_bc |-> a]

\* a |= b, b |= a, (a |= b) |= c and a |= (b |= c), each on a copy.
JoinApply ==
  /\ pc = "join"
  /\ ~mono.applied
  /\ mono' = [mono EXCEPT
                !.applied = TRUE,
                !.ab = MachineJoin(mono.a, mono.b),
                !.ba = MachineJoin(mono.b, mono.a),
                !.ab_c = MachineJoin(MachineJoin(mono.a, mono.b), mono.c),
                !.a_bc = MachineJoin(mono.a, MachineJoin(mono.b, mono.c))]
  /\ UNCHANGED <<prog, cfg, pc, key, pre, post, w, count, label, idx, dom,
                 ndebug, main>>

NextJoin == JoinApply

SpecJoin == InitJoin /\ [][NextJoin]_vars

\* C13: the join of Machines is commutative and associative, and it is
\* componentwise: a slot absent in either operand is absent in the result,
\* the stacks are joined, the validated size is the minimum.
C13_JoinCommutativeAssociative ==
  (pc = "join" /\ mono.applied) =>
    /\ mono.ab = mono.ba
    /\ mono.ab_c = mono.a_bc
    /\ \A i \in Regs :
         mono.ab.regs[i].present
           <=> (mono.a.regs[i].present /\ mono.b.regs[i].present)
    /\ mono.ab.stack_arr = MemJoin(mono.a.stack_arr, mono.b.stack_arr)
    /\ mono.ab.data_end <= mono.a.data_end
    /\ mono.ab.data_end <= mono.b.data_end
    /\ mono.ab.data_end \in {mono.a.data_end, mono.b.data_end}

\* Three Machines were joined of which only b has r0 absent, whose sizes
\* differ and whose stacks hold different cells, r13 being present in all.
C13_Witness ==
  /\ mono.on /\ mono.ab_c.regs[DATA_END_REG] = Some(numtop)
  /\ pc = "join" /\ mono.applied
  /\ mono.a.regs[0].present /\ ~mono.b.regs[0].present
  /\ mono.c.regs[0].present
  /\ ~mono.ab_c.regs[0].present
  /\ mono.a.data_end = SIZE_SENTINEL /\ mono.b.data_end = 5
  /\ mono.c.data_end = MinSizeHavoc /\ mono.a_bc.data_end = MinSizeHavoc
  /\ ~mono.a.stack_arr.bot /\ ~mono.b.stack_arr.bot
  /\ mono.a.stack_arr # mono.b.stack_arr
  /\ mono.c.stack_arr.bot

\* C14: once main has returned, the status is 0 if the program was accepted
\* and not 0 if it was rejected, if the analysis died or if the program did
\* not unmarshal; of the runs that read the file, the status is 64 exactly
\* in those without -l whose section does not hold exactly one program; it
\* is 0 whenever -l is given.
C14_ExitStatus ==
  pc = "exited" =>
    /\ main.res = "true" => main.status = 0
    /\ main.res = "false" => main.status # 0
    /\ (/\ ~main.headers /\ ~main.list /\ main.nprogs = 1
        /\ main.domain = "zoneCrab" /\ main.unmarshal_ok
        /\ main.res = "none") => main.status # 0
    /\ (/\ ~main.headers /\ ~main.list /\ main.nprogs = 1
        /\ ~main.unmarshal_ok) => main.status # 0
    /\ ~main.headers =>
         (main.status = 64 <=> (~main.list /\ main.nprogs # 1))
    /\ main.headers => main.status # 64
    /\ main.list => main.status = 0
    /\ main.status \in {0, 1, 64, SIGABRT_STATUS}

\* main returned 1 for a program abs_validate rejected.
C14_Witness ==
  /\ pc = "exited" /\ prog = ProgMapLookupNoCheck
  /\ main.res = "false" /\ main.status = 1 /\ ~Verdict
  /\ main.domain = "zoneCrab"

\* main returned 0 for a program abs_validate accepted.
C14_WitnessAccepted ==
  /\ pc = "exited" /\ prog = ProgReturnZero
  /\ main.res = "true" /\ main.status = 0 /\ Verdict
  /\ main.domain = "zoneCrab"

\* main returned 64: two programs in the section and no -l.
C14_WitnessSection ==
  /\ pc = "exited" /\ main.status = 64 /\ main.nprogs = 2 /\ ~main.list

\* The slots of a join and of a meet are absent where either operand's is.
AbsentAbsorbs(a, b) ==
  \A i \in Regs :
    (~a[i].present \/ ~b[i].present) =>
      (~RegsJoin(a, b)[i].present /\ ~RegsMeet(a, b)[i].present)

\* C15: a slot absent in either operand is absent in the join and in the
\* meet; so, once worklist has returned, a register present in pre[l] of a
\* block l other than the entry is present in post[p] of every predecessor
\* p of l.
C15_InitializedOnAllPaths ==
  Returned =>
    \A l \in DOMAIN cfg : \A i \in DOMAIN cfg[l].prevlist :
      /\ AbsentAbsorbs(pre[l].regs, post[cfg[l].prevlist[i]].regs)
      /\ l # Keys[1] =>
           \A r \in Regs :
             pre[l].regs[r].present =>
               post[cfg[l].prevlist[i]].regs[r].present

\* The same for the blocks worklist has popped.
C15_OnPoppedBlocks ==
  Returned =>
    \A l \in DOMAIN cfg : \A i \in DOMAIN cfg[l].prevlist :
      (l # Keys[1] /\ count[l] >= Len(cfg[l].prevlist)) =>
        \A r \in Regs :
          pre[l].regs[r].present =>
            post[cfg[l].prevlist[i]].regs[r].present

\* The instruction dom is about to visit, in recompute and in the sweep.
CurIns ==
  IF pc = "recompute" THEN InstsOf(label)[idx] ELSE InstsOf(Keys[key])[idx]

\* This step is a visit that returned: dom' is the Machine after CurIns.
VisitReturned ==
  /\ pc \in {"recompute", "sweep"}
  /\ pc' = pc
  /\ idx' = idx + 1

\* C16: a Call or a Packet leaves r1..r5 absent and r0 present, holding
\* num-TOP, or for a Call with returns_map the map_lookup_elem of what r1
\* held before; r6..r10, the data_end and meta slots and the validated
\* packet size are as before.
C16_CallFrame ==
  [][(VisitReturned /\ CurIns.kind \in {"Call", "Packet"}) =>
       /\ \A r \in 1 .. 5 : ~dom'.regs[r].present
       /\ dom'.regs[0] =
            Some(IF CurIns.kind = "Call" /\ CurIns.returns_map
                   THEN MapLookupElem(At(dom, 1))
                 ELSE numtop)
       /\ \A r \in (6 .. 10) \cup {DATA_END_REG, META_REG} :
            dom'.regs[r] = dom.regs[r]
       /\ dom'.data_end = dom.data_end]_vars

\* recompute is past the map lookup of the program that keeps the context
\* pointer in r6: r0 is the null-or-value result, r1..r5 are absent, r6 and
\* r10 hold what they held.
C16_Witness ==
  /\ pc = "recompute" /\ prog = ProgLeakCtx /\ idx > 1
  /\ InstsOf(label)[idx - 1] = MapLookupCall
  /\ dom.regs[0] = Some(MapLookupElem(WithFd(RcpBot, 0)))
  /\ \A r \in 1 .. 5 : ~dom.regs[r].present
  /\ dom.regs[6] = Some(WithCtx(RcpBot, 0))
  /\ dom.regs[10] = Some(WithStack(RcpBot, NSSingle(STACK_SIZE)))

\* CurIns is an Assume whose right operand, read from dom, is packet_end.
AtAssumePacketEnd ==
  /\ pc \in {"recompute", "sweep"}
  /\ idx <= Len(IF pc = "recompute" THEN InstsOf(label)
                ELSE InstsOf(Keys[key]))
  /\ CurIns.kind = "Assume"
  /\ \A r \in EvalReads(CurIns.cond.right) : dom.regs[r].present
  /\ IsPacketEnd(Eval(dom, CurIns.cond.right))

\* The validated size C17 states for an LE against packet_end: the maximum
\* of the old size and the least packet offset of the left register, the
\* old size when that offset set is BOT or TOP.
SizeAfterLE(size, ub) ==
  IF NSIsBot(ub) \/ NSIsTop(ub) THEN size ELSE Max2(size, SetMin(ub.elems))

\* C17: the visit of an Assume whose right operand is packet_end changes no
\* register; for LE the validated packet size becomes the maximum of the old
\* size and the least packet offset of the left register, and stays as it
\* is when that register has no packet offset or an unknown one; for any
\* other op the Machine is unchanged.
C17_AssumePacketEnd ==
  [][(AtAssumePacketEnd /\ VisitReturned) =>
       /\ dom'.regs = dom.regs
       /\ dom'.stack_arr = dom.stack_arr
       /\ CurIns.cond.op = "LE" =>
            dom'.data_end =
              SizeAfterLE(dom.data_end, GetPacket(At(dom, CurIns.cond.left)))
       /\ CurIns.cond.op # "LE" => dom' = dom]_vars

\* The same without the case of an unknown packet offset.
C17_AssumePacketEndKnown ==
  [][(/\ AtAssumePacketEnd /\ VisitReturned
      /\ ~(/\ CurIns.cond.op = "LE"
            /\ dom.regs[CurIns.cond.left].present
            /\ NSIsTop(GetPacket(At(dom, CurIns.cond.left))))) =>
       /\ dom'.regs = dom.regs
       /\ dom'.stack_arr = dom.stack_arr
       /\ CurIns.cond.op = "LE" =>
            dom'.data_end =
              SizeAfterLE(dom.data_end, GetPacket(At(dom, CurIns.cond.left)))
       /\ CurIns.cond.op # "LE" => dom' = dom]_vars

\* What a Mem store of num-TOP through the address of the access leaves.
NumWrite(m, a) ==
  Store(m, RcpAdd(At(m, a.basereg), EvalNum(a.offset)), NSSingle(a.width),
        numtop)

C18_LockAddOffStack ==
  (/\ pc = "mono" /\ mono.applied /\ mono.ins.kind = "LockAdd"
   /\ mono.m1.regs[mono.ins.access.basereg].present
   /\ NSIsBot(GetStack(At(mono.m1, mono.ins.access.basereg)))) =>
    mono.o1 = Ok(NumWrite(mono.m1, mono.ins.access))

\* CurIns is a Mem store.
IsStoreIns(ins) == ins.kind = "Mem" /\ ~ins.is_load

\* C19: the visit of a Mem store leaves the registers and the validated
\* packet size as they were; with no stack component in the address the
\* Machine is unchanged; through a stack pointer with no other component
\* the write goes to its stack offsets (a strong update for one offset);
\* with a stack component and another one, it is a weak update over all
\* stack offsets.
C19_StoreFrame ==
  [][(VisitReturned /\ IsStoreIns(CurIns)) =>
       LET addr == AddrOf(dom, CurIns)
           value == Eval(dom, CurIns.value)
           width == CurIns.access.width
       IN /\ dom'.regs = dom.regs
          /\ dom'.data_end = dom.data_end
          /\ NSIsBot(GetStack(addr)) => dom' = dom
          /\ (~NSIsBot(GetStack(addr)) /\ RcpIsBot(WithStack(addr, NSBot))) =>
               dom'.stack_arr =
                 MemStore(dom.stack_arr, GetStack(addr), width, value)
          /\ (/\ NSIsSingle(GetStack(addr))
              /\ RcpIsBot(WithStack(addr, NSBot))
              /\ ~dom.stack_arr.bot) =>
               LET o == CHOOSE x \in GetStack(addr).elems : TRUE
               IN /\ <<o, width>> \in DOMAIN dom'.stack_arr.cells
                  /\ dom'.stack_arr.cells[<<o, width>>] = value
          /\ (~NSIsBot(GetStack(addr)) /\ ~RcpIsBot(WithStack(addr, NSBot))) =>
               dom'.stack_arr = MemStore(dom.stack_arr, NSTop, width, value)]_vars

\* recompute is past a store through r10, which block 2 set to the context
\* pointer on one of the two paths into block 3: the address had a stack and
\* a ctx component, and the stack holds no cell at the offset of the write.
C19_Witness ==
  /\ pc = "recompute" /\ label = 3 /\ idx = Len(InstsOf(3)) + 1
  /\ idx > 1
  /\ InstsOf(3)[idx - 1] = stx(10, -8, 8, 1)
  /\ dom.regs[10].present
  /\ ~NSIsBot(GetStack(At(dom, 10))) /\ ~NSIsBot(GetCtx(At(dom, 10)))
  /\ ~dom.stack_arr.bot
  /\ DOMAIN dom.stack_arr.cells = {}

\* The result C20 states for a load at the ctx offsets as_ctx.
CtxLoadStated(as_ctx) ==
  LET d == Descriptor
      o == CHOOSE x \in as_ctx.elems : TRUE
  IN IF ~NSIsSingle(as_ctx) THEN numtop
     ELSE IF d.data >= 0 /\ o = d.data THEN WithPacket(RcpBot, 3)
     ELSE IF d.end >= 0 /\ o = d.end THEN WithPacketEnd(RcpBot)
     ELSE IF d.meta >= 0 /\ o = d.meta
       THEN RcpAdd(WithPacket(RcpBot, 3), WithPacket(RcpBot, 0))
     ELSE numtop

\* CurIns is a Mem load through an address that is a context pointer and
\* nothing else.
AtCtxLoad ==
  /\ pc \in {"recompute", "sweep"}
  /\ idx <= Len(IF pc = "recompute" THEN InstsOf(label)
                ELSE InstsOf(Keys[key]))
  /\ CurIns.kind = "Mem" /\ CurIns.is_load
  /\ dom.regs[CurIns.access.basereg].present
  /\ ~NSIsBot(GetCtx(AddrOf(dom, CurIns)))
  /\ RcpIsBot(With(AddrOf(dom, CurIns), T_CTX, NSBot))

\* C20: a load through a context pointer at the single offset o gives the
\* packet pointer at offset 3 for o = descriptor.data, packet_end for
\* o = descriptor.end, packet start plus offset 0 for o = descriptor.meta
\* and num-TOP for any other o; at a set of offsets that is not single it
\* gives num-TOP, a value with no pointer and no fd component.
C20_ContextLoads ==
  [][(AtCtxLoad /\ VisitReturned) =>
       dom'.regs[CurIns.value.v]
         = Some(CtxLoadStated(GetCtx(AddrOf(dom, CurIns))))]_vars

\* The same for the single offsets alone.
C20_ContextLoadsSingle ==
  [][(/\ AtCtxLoad /\ VisitReturned
      /\ NSIsSingle(GetCtx(AddrOf(dom, CurIns)))) =>
       dom'.regs[CurIns.value.v]
         = Some(CtxLoadStated(GetCtx(AddrOf(dom, CurIns))))]_vars

RECURSIVE ReachedIn(_, _, _)
\* The labels reached from those of S in at most k more edges.
ReachedIn(g, S, k) ==
  IF k = 0 THEN S
  ELSE ReachedIn(g, S \cup {e[2] : e \in {d \in g.edges : d[1] \in S}}, k - 1)

\* Every block of the program is reachable from the entry.
AllReachable == ReachedIn(prog, {1}, prog.n) = 1 .. prog.n

\* recompute has stored a post for l: every post recompute stores has the
\* absent slots init() gives the entry, the Machine of the constructor none.
Popped(l) == post[l] # MachineDefault

\* C21: on a DAG whose blocks are all reachable from the entry, worklist
\* pops a label that was not popped before and whose predecessors have all
\* been popped; a post once stored stays; when worklist returns every label
\* has been popped and each pre contains the post of every predecessor.
C21_WorklistOrder ==
  /\ [][(AllReachable /\ pc = "worklist" /\ pc' = "recompute") =>
          /\ ~Popped(label')
          /\ \A i \in DOMAIN cfg[label'].prevlist :
               Popped(cfg[label'].prevlist[i])
          /\ \A i \in DOMAIN cfg[label'].prevlist :
               MachineLeq(post[cfg[label'].prevlist[i]], pre'[label'])]_vars
  /\ [][(AllReachable /\ pc \in {"worklist", "recompute"}) =>
          \A l \in DOMAIN post : Popped(l) => post'[l] = post[l]]_vars
  /\ [](AllReachable /\ Returned =>
          /\ \A l \in DOMAIN cfg : Popped(l)
          /\ \A l \in DOMAIN cfg : \A i \in DOMAIN cfg[l].prevlist :
               MachineLeq(post[cfg[l].prevlist[i]], pre[l]))

\* worklist has returned on the four-block program: block 4, which has the
\* short edge from the entry, was recomputed from the join of the posts of
\* blocks 1 and 3, so r6, written in block 3 only, is absent in its pre.
C21_Witness ==
  /\ Returned /\ prog = ProgLongShort
  /\ \A l \in 1 .. 4 : Popped(l)
  /\ count = <<0, 1, 1, 2>>
  /\ post[3].regs[6].present /\ ~pre[4].regs[6].present
  /\ ~pre[4].regs[0].present

\* The validated packet size of every Machine held: dom, pre and post.
SizesHeld ==
  {dom.data_end} \cup {pre[l].data_end : l \in DOMAIN pre}
  \cup {post[l].data_end : l \in DOMAIN post}

AccessTypeSets == SUBSET (AllTypes \ TS_fd)
AccessOffsets == {0 - 8, 0, 4}
AccessWidths == {1, 4, 8}
AccessRegs == {1, 10}

InitAccess ==
  /\ prog = ProgReturnZero
  /\ cfg = CfgOf(prog)
  /\ pc = "access"
  /\ key = 1
  /\ pre = << >>
  /\ post = << >>
  /\ w = << >>
  /\ count = << >>
  /\ label = 0
  /\ idx = 0
  /\ dom = MachineDefault
  /\ ndebug = FALSE
  /\ main = MainDefault
  /\ \E t \in AccessTypeSets, reg \in AccessRegs, offset \in AccessOffsets,
        width \in AccessWidths, is_load \in BOOLEAN :
       mono = [on |-> TRUE, applied |-> FALSE, t |-> t, reg |-> reg,
               offset |-> offset, width |-> width,
               ins |-> Mem(Access(reg, offset, width), Reg(2), is_load),
               out |-> << >>, mem |-> << >>]

\* check_access on the drawn arguments, and operator()(Mem) on the drawn
\* access.
AccessApply ==
  /\ pc = "access"
  /\ ~mono.applied
  /\ mono' = [mono EXCEPT
                !.applied = TRUE,
                !.out = check_access(mono.t, mono.reg, mono.offset,
                                     Imm(mono.width)),
                !.mem = Extract(mono.ins)]
  /\ UNCHANGED <<prog, cfg, pc, key, pre, post, w, count, label, idx, dom,
                 ndebug, main>>

NextAccess == AccessApply

SpecAccess == InitAccess /\ [][NextAccess]_vars

\* The upper bound stated for one type of when_types.
UpperStated(i, reg, offset, width) ==
  CASE i \in TS_maps ->
         [ck |-> "Linear", op |-> "LE", reg |-> reg, offset |-> offset,
          width |-> Imm(width), v |-> Imm(MapDefs[i + 1].value_size),
          when |-> {i}]
    [] i = T_STACK ->
         [ck |-> "Linear", op |-> "LE", reg |-> reg, offset |-> offset,
          width |-> Imm(width), v |-> Imm(STACK_SIZE), when |-> {i}]
    [] i = T_CTX ->
         [ck |-> "Linear", op |-> "LE", reg |-> reg, offset |-> offset,
          width |-> Imm(width), v |-> Imm(Descriptor.size), when |-> {i}]
    [] i = T_PACKET ->
         [ck |-> "InPacket", reg |-> reg, offset |-> offset,
          width |-> Imm(width)]

\* C23: check_access emits one GE constraint with width 0 and bound 0 under
\* when_types, then exactly one upper bound for each type of when_types
\* other than num (value_size, STACK_SIZE or descriptor.size under that
\* single type, InPacket for packet) and nothing else; a Mem access based
\* on r10 yields the stack constraints only, with no type assertion.
C23_CheckAccessShape ==
  (pc = "access" /\ mono.applied) =>
    /\ Len(mono.out) = 1 + Cardinality(mono.t \ TS_num)
    /\ mono.out[1] =
         [ck |-> "Linear", op |-> "GE", reg |-> mono.reg,
          offset |-> mono.offset, width |-> Imm(0), v |-> Imm(0),
          when |-> mono.t]
    /\ \A i \in mono.t \ TS_num :
         Cardinality({k \in 2 .. Len(mono.out) :
                        mono.out[k] = UpperStated(i, mono.reg, mono.offset,
                                                  mono.width)}) = 1
    /\ mono.reg = 10 =>
         /\ mono.mem =
              <<[ck |-> "Linear", op |-> "GE", reg |-> 10,
                 offset |-> mono.offset, width |-> Imm(0), v |-> Imm(0),
                 when |-> TS_stack],
                UpperStated(T_STACK, 10, mono.offset, mono.width)>>
         /\ \A k \in DOMAIN mono.mem : mono.mem[k].ck # "Type"

\* check_access was applied to all pointer types and r10, and produced the
\* lower bound and four upper bounds.
C23_Witness ==
  /\ pc = "access" /\ mono.applied
  /\ mono.t = TS_ptr /\ mono.reg = 10
  /\ Len(mono.out) = 5
  /\ Len(mono.mem) = 2

\* ------------------------------------------------------- crab::safe_i64
\* int64_t is scaled to SafeBits bits, two's complement; wideint_t holds
\* every sum, difference, product and quotient of two such numbers exactly.
SafeBits == 4
RECURSIVE Pow2(_)
Pow2(n) == IF n = 0 THEN 1 ELSE 2 * Pow2(n - 1)
get_max == Pow2(SafeBits - 1) - 1
get_min == 0 - Pow2(SafeBits - 1)
Int64 == get_min .. get_max

\* The conversion of a wideint_t to int64_t done by *rp = lr: the low bits.
Narrow(lr) == ((lr - get_min) % Pow2(SafeBits)) + get_min

Magnitude(n) == IF n < 0 THEN 0 - n ELSE n
\* Division of wideint_t, which truncates towards zero.
WideDiv(a, b) ==
  IF (a < 0) = (b < 0) THEN Magnitude(a) \div Magnitude(b)
  ELSE 0 - (Magnitude(a) \div Magnitude(b))

Checked(lr) == [rp |-> Narrow(lr), err |-> lr > get_max \/ lr < get_min]

checked_add(a, b) == Checked(a + b)

\* A subtraction carried out in int64_t, which wraps.
checked_sub_narrow(a, b) == Checked(Narrow(a - b))

checked_sub(a, b) == Checked(a - b)
checked_mul(a, b) == Checked(a * b)
checked_div(a, b) == Checked(WideDiv(a, b))

\* The outcome of an operator on an object holding m: CRAB_ERROR with its
\* message, or the returned number; m_num is what the object holds
\* afterwards.
SafeRaised(msg, m_num) == [raised |-> TRUE, msg |-> msg, m_num |-> m_num]
SafeReturned(z, m_num) == [raised |-> FALSE, z |-> z, m_num |-> m_num]

OpPlus(m, x) ==
  LET c == checked_add(m, x)
  IN IF c.err THEN SafeRaised("Integer overflow during addition", m)
     ELSE SafeReturned(c.rp, m)
OpMinus(m, x) ==
  LET c == checked_sub(m, x)
  IN IF c.err THEN SafeRaised("Integer overflow during subtraction", m)
     ELSE SafeReturned(c.rp, m)
OpTimes(m, x) ==
  LET c == checked_mul(m, x)
  IN IF c.err THEN SafeRaised("Integer overflow during multiplication", m)
     ELSE SafeReturned(c.rp, m)
OpDivide(m, x) ==
  LET c == checked_div(m, x)
  IN IF c.err THEN SafeRaised("Integer overflow during multiplication", m)
     ELSE SafeReturned(c.rp, m)
\* safe_i64(0) - *this
OpNegate(m) ==
  LET r == OpMinus(0, m)
  IN IF r.raised THEN SafeRaised(r.msg, m) ELSE SafeReturned(r.z, m)
\* checked_add and checked_sub write m_num before the error is raised.
OpPlusAssign(m, x) ==
  LET c == checked_add(m, x)
  IN IF c.err THEN SafeRaised("Integer overflow during addition", c.rp)
     ELSE SafeReturned(c.rp, c.rp)
OpMinusAssign(m, x) ==
  LET c == checked_sub(m, x)
  IN IF c.err THEN SafeRaised("Integer overflow during subtraction", c.rp)
     ELSE SafeReturned(c.rp, c.rp)

NotApplied == [raised |-> FALSE, z |-> 0, m_num |-> 0]

InitSafe ==
  /\ prog = ProgReturnZero
  /\ cfg = CfgOf(prog)
  /\ pc = "safe"
  /\ key = 1
  /\ pre = << >>
  /\ post = << >>
  /\ w = << >>
  /\ count = << >>
  /\ label = 0
  /\ idx = 0
  /\ dom = MachineDefault
  /\ ndebug = FALSE
  /\ main = MainDefault
  /\ \E a, b \in Int64 :
       mono = [on |-> TRUE, applied |-> FALSE, a |-> a, b |-> b,
               add |-> NotApplied, sub |-> NotApplied, mul |-> NotApplied,
               div |-> NotApplied, neg |-> NotApplied,
               addeq |-> NotApplied, subeq |-> NotApplied]

\* Every operator applied to safe_i64(a) and safe_i64(b), each on a copy;
\* the division only when b is not zero.
SafeApply ==
  /\ pc = "safe"
  /\ ~mono.applied
  /\ mono' = [mono EXCEPT
                !.applied = TRUE,
                !.add = OpPlus(mono.a, mono.b),
                !.sub = OpMinus(mono.a, mono.b),
                !.mul = OpTimes(mono.a, mono.b),
                !.div = IF mono.b = 0 THEN NotApplied
                        ELSE OpDivide(mono.a, mono.b),
                !.neg = OpNegate(mono.a),
                !.addeq = OpPlusAssign(mono.a, mono.b),
                !.subeq = OpMinusAssign(mono.a, mono.b)]
  /\ UNCHANGED <<prog, cfg, pc, key, pre, post, w, count, label, idx, dom,
                 ndebug, main>>

NextSafe == SafeApply

SpecSafe == InitSafe /\ [][NextSafe]_vars

\* The quotient of a by b rounded towards zero, stated by its remainder.
ExactQuotient(a, b) ==
  CHOOSE q \in (2 * get_min) .. (0 - 2 * get_min) :
    LET r == a - q * b
    IN /\ Magnitude(r) < Magnitude(b)
       /\ r = 0 \/ (r < 0) = (a < 0)

\* r is the exact result when it is an int64_t, and the error otherwise.
ExactOrRaised(r, exact) ==
  IF exact \in Int64 THEN ~r.raised /\ r.z = exact ELSE r.raised

\* C24: each of +, -, *, / (b non-zero), unary -, += and -= returns the
\* exact result when it is representable and raises the overflow error
\* otherwise; += and -= leave the exact result in the object they return.
C24_NeverWrapsSilently ==
  (pc = "safe" /\ mono.applied) =>
    /\ ExactOrRaised(mono.add, mono.a + mono.b)
    /\ ExactOrRaised(mono.sub, mono.a - mono.b)
    /\ ExactOrRaised(mono.mul, mono.a * mono.b)
    /\ mono.b # 0 => ExactOrRaised(mono.div, ExactQuotient(mono.a, mono.b))
    /\ ExactOrRaised(mono.neg, 0 - mono.a)
    /\ ExactOrRaised(mono.addeq, mono.a + mono.b)
    /\ ExactOrRaised(mono.subeq, mono.a - mono.b)
    /\ ~mono.addeq.raised => mono.addeq.m_num = mono.a + mono.b
    /\ ~mono.subeq.raised => mono.subeq.m_num = mono.a - mono.b

\* The operators were applied to the least int64_t and -1: the quotient,
\* the product, the negation and the sum raised, the difference did not.
C24_Witness ==
  /\ pc = "safe" /\ mono.applied
  /\ mono.a = get_min /\ mono.b = 0 - 1
  /\ mono.div.raised /\ mono.mul.raised /\ mono.neg.raised
  /\ mono.add.raised /\ mono.addeq.raised
  /\ ~mono.sub.raised /\ mono.sub.z = get_min + 1
====
